---- MODULE Spec2Model ----
(***************************************************************************)
(* A model of the runes NES emulator core: the 6502 CPU (cpu.rs), the     *)
(* memory bus (bus.rs), the PPU register file and scanline counter        *)
(* (ppu.rs) and the host clock driver (ui.rs).                             *)
(*                                                                         *)
(* The machine is the record m = [cpu, bus, ppu, cart, events]: cpu, bus   *)
(* and ppu hold the fields of the structs CPU, Bus and PPU under their     *)
(* source names, cart is the cartridge image, and events is the list of    *)
(* the steps the current host call has performed (an observation, not     *)
(* program state).  Byte arrays (CPU RAM, VRAM, OAM, palette, PRG, CHR)    *)
(* are finite maps that store only the cells differing from the array's    *)
(* fill value.  Arithmetic is that of the release build: u8 and u16        *)
(* additions wrap.  The pixel buffers are not part of the model.           *)
(***************************************************************************)
EXTENDS Integers, Sequences, FiniteSets, TLC

VARIABLES
    cpu,        \* the CPU's registers and counters (struct CPU)
    bus,        \* CPU RAM and the controller latches (struct Bus)
    ppu,        \* the PPU (struct PPU)
    cart,       \* the cartridge image (struct Cartridge)
    events,     \* observation: the steps the last host call performed, in order
    nticks,     \* observation: the number of clock() calls made, as [hi, lo]
    nresets,    \* observation: the number of host resets made
    tally,      \* observation: PPU ticks and CPU cycles performed so far
    instr,      \* observation: the instruction in progress (cost, cycles elapsed)
    closed,     \* observation: the instruction the last opcode fetch ended
    hist,       \* observation: the register accesses made directly on the bus
    fault       \* observation: "none", or the panic that ended the process

vars == <<cpu, bus, ppu, cart, events, nticks, nresets, tally, instr, closed, hist, fault>>

(***************************************************************************)
(* Bit operations on unsigned integers (&, |, ^ of the source).            *)
(***************************************************************************)
RECURSIVE BitAnd(_, _)
BitAnd(a, b) ==
    IF a = 0 \/ b = 0 THEN 0
    ELSE (a % 2) * (b % 2) + 2 * BitAnd(a \div 2, b \div 2)

RECURSIVE BitOr(_, _)
BitOr(a, b) ==
    IF a = 0 THEN b
    ELSE IF b = 0 THEN a
    ELSE (IF a % 2 = 1 \/ b % 2 = 1 THEN 1 ELSE 0) + 2 * BitOr(a \div 2, b \div 2)

RECURSIVE BitXor(_, _)
BitXor(a, b) ==
    IF a = 0 THEN b
    ELSE IF b = 0 THEN a
    ELSE ((a + b) % 2) + 2 * BitXor(a \div 2, b \div 2)

\* !(x) on a u8
Not8(x) == 255 - x

\* x as u8, x as u16 (truncating casts; wrapping_add / wrapping_sub results)
U8(x) == x % 256
U16(x) == x % 65536

\* (x & mask) != 0 for a one-bit mask
Test(x, mask) == (x \div mask) % 2 = 1

(***************************************************************************)
(* Byte arrays as finite maps over the cells that differ from the fill.    *)
(***************************************************************************)
Load(arr, i, fill) == IF i \in DOMAIN arr THEN arr[i] ELSE fill

Store(arr, i, v, fill) ==
    IF v = fill
    THEN [k \in DOMAIN arr \ {i} |-> arr[k]]
    ELSE [k \in DOMAIN arr \cup {i} |-> IF k = i THEN v ELSE arr[k]]

Empty == [k \in {} |-> 0]

\* let v = ...; F(v): names the result of a step for the steps after it
Bind(v, F(_)) == F(v)

(***************************************************************************)
(* ppu.rs: flags                                                           *)
(***************************************************************************)
PPUStatusFlags == [SpriteOverflow |-> 32, SpriteZeroHit |-> 64, VerticalBlank |-> 128]

PPUControlFlags ==
    [NametableX |-> 1, NametableY |-> 2, IncrementMode |-> 4, PatternSprite |-> 8,
     PatternBackground |-> 16, SpriteSize |-> 32, SlaveMode |-> 64, EnableNMI |-> 128]

\* PPU::new
PPU_new(chr_rom, mirroring, chr_is_ram) ==
    [chr_rom |-> chr_rom, vram |-> Empty, oam |-> Empty, palette |-> Empty,
     address_register |-> 0, address_latch |-> TRUE,
     control_register |-> 0, nmi |-> FALSE, mask_register |-> 0,
     status_register |-> 0, data_buffer |-> 0, mirroring |-> mirroring,
     scanline |-> 0, cycle |-> 0, frame_complete |-> FALSE,
     chr_is_ram |-> chr_is_ram, oam_addr |-> 0, scroll_x |-> 0, scroll_y |-> 0]

\* PPU::reset
PPU_reset(p) ==
    [p EXCEPT !.address_register = 0, !.address_latch = TRUE,
              !.control_register = 0, !.mask_register = 0,
              !.status_register = 0, !.data_buffer = 0, !.oam = Empty,
              !.scanline = 0, !.cycle = 0, !.nmi = FALSE,
              !.frame_complete = FALSE, !.oam_addr = 0,
              !.scroll_x = 0, !.scroll_y = 0]

\* PPU::new, `vram_size`: the length of the vram vector
vram_size(mirroring) == IF mirroring = "FourScreen" THEN \h1000 ELSE \h0800

\* a VRAM index that folds the four nametables onto two by halves
mirror_vram_addr_by_halves(p, addr) ==
    IF p.mirroring = "FourScreen" THEN BitAnd(addr, \h2FFF) - \h2000
    ELSE (BitAnd(addr, \h2FFF) - \h2000) % \h0800

\* PPU::mirror_vram_addr.  `mirrored_vram - 0x2000` is a u16 subtraction: for
\* an address with (addr & 0x2FFF) < 0x2000 it wraps (in the debug build it
\* panics); ppu_read and ppu_write pass 0x2000..0x2FFF only
mirror_vram_addr(p, addr) ==
    LET mirrored_vram == BitAnd(addr, \h2FFF)
        vram_index == U16(mirrored_vram - \h2000)
        name_table == vram_index \div \h0400
    IN  CASE p.mirroring = "Vertical" ->
               IF name_table \in {2, 3} THEN vram_index - \h0800 ELSE vram_index
          [] p.mirroring = "Horizontal" ->
               IF name_table \in {1, 2} THEN vram_index - \h0400
               ELSE IF name_table = 3 THEN vram_index - \h0800
               ELSE vram_index
          [] OTHER -> vram_index

\* PPU::write_to_address_register
write_to_address_register(p, data) ==
    LET a == IF p.address_latch
             THEN BitOr(BitAnd(p.address_register, \h00FF), data * 256)
             ELSE BitOr(BitAnd(p.address_register, \hFF00), data)
    IN  [p EXCEPT !.address_register = BitAnd(a, \h3FFF),
                  !.address_latch = ~p.address_latch]

\* an increment without the 14-bit mask
increment_address_register_unmasked(p, increment) ==
    [p EXCEPT !.address_register = U16(p.address_register + increment)]

\* PPU::increment_address_register
increment_address_register(p, increment) ==
    [p EXCEPT !.address_register = BitAnd(U16(p.address_register + increment), \h3FFF)]

\* PPU::reset_address_latch
reset_address_latch(p) == [p EXCEPT !.address_latch = TRUE]

\* PPU::write_to_control_register
write_to_control_register(p, data) == [p EXCEPT !.control_register = data]

\* PPU::get_control_flag
get_control_flag(p, flag) == BitAnd(p.control_register, flag) # 0

\* PPU::increment_vram_addr
increment_vram_addr(p) ==
    LET increment ==
          IF BitAnd(p.control_register, PPUControlFlags.IncrementMode) = 0 THEN 1 ELSE 32
    IN  increment_address_register(p, increment)

\* a flag set together with the flag of the bit below it
set_status_flag_pair(p, flag, value) ==
    [p EXCEPT !.status_register =
        IF value THEN BitOr(@, flag + (flag \div 2)) ELSE BitAnd(@, Not8(flag))]

\* PPU::set_status_flag
set_status_flag(p, flag, value) ==
    [p EXCEPT !.status_register =
        IF value THEN BitOr(@, flag) ELSE BitAnd(@, Not8(flag))]

\* a status read that leaves the address latch as it finds it
read_status_register_latch_kept(p) ==
    LET status == BitOr(BitAnd(p.status_register, \hE0), BitAnd(p.data_buffer, \h1F))
    IN  [p |-> set_status_flag(p, PPUStatusFlags.VerticalBlank, FALSE), v |-> status]

\* a status read that returns the status register and the buffer whole
read_status_register_unmasked(p) ==
    [p |-> [set_status_flag(p, PPUStatusFlags.VerticalBlank, FALSE)
              EXCEPT !.address_latch = TRUE],
     v |-> BitOr(p.status_register, p.data_buffer)]

\* PPU::read_status_register: the PPU afterwards (p) and the byte returned (v)
read_status_register(p) ==
    LET status == BitOr(BitAnd(p.status_register, \hE0), BitAnd(p.data_buffer, \h1F))
        p1 == set_status_flag(p, PPUStatusFlags.VerticalBlank, FALSE)
    IN  [p |-> [p1 EXCEPT !.address_latch = TRUE], v |-> status]

\* PPU::write_to_mask_register
write_to_mask_register(p, data) == [p EXCEPT !.mask_register = data]

\* a scroll write that leaves the address latch as it finds it
write_to_scroll_register_latch_kept(p, data) ==
    IF p.address_latch THEN [p EXCEPT !.scroll_x = data] ELSE [p EXCEPT !.scroll_y = data]

\* PPU::write_to_scroll_register
write_to_scroll_register(p, data) ==
    LET p1 == IF p.address_latch
              THEN [p EXCEPT !.scroll_x = data]
              ELSE [p EXCEPT !.scroll_y = data]
    IN  [p1 EXCEPT !.address_latch = ~p.address_latch]

\* PPU::write_to_oam_address
write_to_oam_address(p, data) == [p EXCEPT !.oam_addr = data]

\* an OAM data write that leaves the OAM address where it is
write_to_oam_data_in_place(p, data) ==
    [p EXCEPT !.oam = Store(@, p.oam_addr, data, 255)]

\* PPU::write_to_oam_data
write_to_oam_data(p, data) ==
    [p EXCEPT !.oam = Store(@, p.oam_addr, data, 255),
              !.oam_addr = U8(p.oam_addr + 1)]

\* PPU::read_oam_data
read_oam_data(p) == Load(p.oam, p.oam_addr, 255)

\* the palette index of a palette address (ppu_read and ppu_write share it)
palette_index(addr) ==
    LET i == (addr - \h3F00) % 32
    IN  CASE i = \h10 -> \h00
          [] i = \h14 -> \h04
          [] i = \h18 -> \h08
          [] i = \h1C -> \h0C
          [] OTHER -> i

\* PPU::ppu_read
RECURSIVE ppu_read(_, _)
ppu_read(p, addr0) ==
    LET addr == BitAnd(addr0, \h3FFF)
    IN  IF addr <= \h1FFF THEN Load(p.chr_rom, addr, 0)
        ELSE IF addr <= \h2FFF THEN Load(p.vram, mirror_vram_addr(p, addr), 0)
        ELSE IF addr <= \h3EFF THEN ppu_read(p, addr - \h1000)
        ELSE BitAnd(Load(p.palette, palette_index(addr), 0), \h3F)

\* PPU::ppu_write
RECURSIVE ppu_write(_, _, _)
ppu_write(p, addr0, data) ==
    LET addr == BitAnd(addr0, \h3FFF)
    IN  IF addr <= \h1FFF
        THEN IF p.chr_is_ram THEN [p EXCEPT !.chr_rom = Store(@, addr, data, 0)] ELSE p
        ELSE IF addr <= \h2FFF
        THEN [p EXCEPT !.vram = Store(@, mirror_vram_addr(p, addr), data, 0)]
        ELSE IF addr <= \h3EFF THEN ppu_write(p, addr - \h1000, data)
        ELSE [p EXCEPT !.palette = Store(@, palette_index(addr), BitAnd(data, \h3F), 0)]

\* a data read without the read buffer: the byte at the address comes back
read_data_unbuffered(p) ==
    [p |-> increment_vram_addr([p EXCEPT !.data_buffer = ppu_read(p, p.address_register)]),
     v |-> ppu_read(p, p.address_register)]

\* PPU::read_data: the PPU afterwards (p) and the byte returned (v)
read_data(p) ==
    LET addr == p.address_register
        inPalette == addr >= \h3F00 /\ addr <= \h3FFF
        data == IF inPalette THEN ppu_read(p, addr) ELSE p.data_buffer
        buf == ppu_read(p, IF inPalette THEN addr - \h1000 ELSE addr)
    IN  [p |-> increment_vram_addr([p EXCEPT !.data_buffer = buf]), v |-> data]

\* a data write that advances the address before it stores the byte
write_data_ahead(p, data) ==
    ppu_write(increment_vram_addr(p), increment_vram_addr(p).address_register, data)

\* PPU::write_data
write_data(p, data) == increment_vram_addr(ppu_write(p, p.address_register, data))

\* a vertical blank that raises the nmi line whatever the control register
clock_vblank_unmasked(p) ==
    IF p.scanline = 241 /\ p.cycle = 1
    THEN [set_status_flag(p, PPUStatusFlags.VerticalBlank, TRUE) EXCEPT !.nmi = TRUE]
    ELSE p

\* PPU::clock, `if self.scanline == 241 && self.cycle == 1`
clock_vblank(p) ==
    IF p.scanline = 241 /\ p.cycle = 1
    THEN Bind(set_status_flag(p, PPUStatusFlags.VerticalBlank, TRUE),
              LAMBDA q : IF get_control_flag(q, PPUControlFlags.EnableNMI)
                         THEN [q EXCEPT !.nmi = TRUE] ELSE q)
    ELSE p

\* PPU::clock, `if self.scanline == 261 && self.cycle == 1`
clock_prerender(p) ==
    IF p.scanline = 261 /\ p.cycle = 1
    THEN set_status_flag(
           set_status_flag(
             set_status_flag(p, PPUStatusFlags.VerticalBlank, FALSE),
             PPUStatusFlags.SpriteZeroHit, FALSE),
           PPUStatusFlags.SpriteOverflow, FALSE)
    ELSE p

\* counters that end the scanline one cycle early
clock_advance_short(p) ==
    IF p.cycle + 1 >= 340
    THEN IF p.scanline + 1 > 261
         THEN [p EXCEPT !.cycle = 0, !.scanline = 0, !.frame_complete = TRUE]
         ELSE [p EXCEPT !.cycle = 0, !.scanline = p.scanline + 1]
    ELSE [p EXCEPT !.cycle = p.cycle + 1]

\* PPU::clock, `self.cycle += 1` and the wraps of cycle and scanline.  Both
\* are u16 additions: at 65535 they wrap to 0 (in the debug build they
\* panic); from PPU::new cycle stays in 0..340 and scanline in 0..261
clock_advance(p) ==
    IF U16(p.cycle + 1) >= 341
    THEN IF U16(p.scanline + 1) > 261
         THEN [p EXCEPT !.cycle = 0, !.scanline = 0, !.frame_complete = TRUE]
         ELSE [p EXCEPT !.cycle = 0, !.scanline = U16(p.scanline + 1)]
    ELSE [p EXCEPT !.cycle = U16(p.cycle + 1)]

\* PPU::clock (the scanline/cycle counter, the vertical-blank flag and the nmi line)
PPU_clock(p) == clock_advance(clock_prerender(clock_vblank(p)))

(***************************************************************************)
(* bus.rs                                                                  *)
(***************************************************************************)
\* Bus::new (the PPU it builds is the machine's ppu field)
Bus_new == [cpu_vram |-> Empty,
            controller |-> [i \in 0..1 |-> 0],
            controller_state |-> [i \in 0..1 |-> 0],
            controller_strobe |-> FALSE]

\* a host update that reaches the live latch only
set_controller_state_live_only(m, index, state) ==
    IF index \in DOMAIN m.bus.controller
    THEN [m EXCEPT !.bus.controller[index] = state]
    ELSE m

\* Bus::set_controller_state
set_controller_state(m, index, state) ==
    IF index \in DOMAIN m.bus.controller
    THEN LET m1 == [m EXCEPT !.bus.controller[index] = state]
         IN  IF m1.bus.controller_strobe
             THEN [m1 EXCEPT !.bus.controller_state[index] = state]
             ELSE m1
    ELSE m

\* Bus::read_prg_rom
\* a PRG index that folds the upper bank onto the lower whatever the length
prg_index_folded(c, addr0) == U16(addr0 - \h8000) % \h4000

\* Bus::read_prg_rom: the index into cartridge.prg_rom.  `addr -= 0x8000` is
\* a u16 subtraction: below 0x8000 it wraps (in the debug build it panics);
\* Bus::mem_read passes 0x8000..0xFFFF only
prg_index(c, addr0) ==
    LET a1 == U16(addr0 - \h8000)
    IN  IF c.prg_len = \h4000 /\ a1 >= \h4000 THEN a1 - \h4000 ELSE a1

\* Bus::read_prg_rom, `self.cartridge.prg_rom[addr as usize]`: whether the
\* index is inside the vector
prg_in_bounds(c, addr0) == prg_index(c, addr0) < c.prg_len

\* Bus::read_prg_rom: the byte, or "panic" where the index is out of bounds
read_prg_rom(c, addr0) ==
    IF prg_in_bounds(c, addr0) THEN Load(c.prg_rom, prg_index(c, addr0), 0)
    ELSE "panic"

\* a RAM index that keeps the address bits above the 2 KiB
ram_mirror_down_addr_whole(addr) == addr

\* Bus::mem_read, Bus::mem_write: `addr & 0x07FF`, the RAM cell of an address
\* of 0x0000..0x1FFF
ram_mirror_down_addr(addr) == BitAnd(addr, \h07FF)

\* a register address folded onto the register after the one it stands for
reg_mirror_down_addr_shifted(addr) == \h2000 + BitAnd(addr + 1, \h0007)

\* Bus::mem_read, Bus::mem_write: `0x2000 + (addr & 0x0007)`, the register an
\* address of 0x2008..0x3FFF stands for
reg_mirror_down_addr(addr) == \h2000 + BitAnd(addr, \h0007)

\* a controller read that never shifts
read_controller_held(m, addr) ==
    [m |-> m, v |-> BitAnd(m.bus.controller_state[BitAnd(addr, \h0001)], \h01)]

\* Bus::mem_read, the arm of 0x4016 | 0x4017
read_controller(m, addr) ==
    LET index == BitAnd(addr, \h0001)
        value == BitAnd(m.bus.controller_state[index], \h01)
    IN  [m |-> IF ~m.bus.controller_strobe
               THEN [m EXCEPT !.bus.controller_state[index] = @ \div 2]
               ELSE m,
         v |-> value]

\* Bus::mem_read: the machine afterwards (m) and the byte returned (v)
RECURSIVE mem_read(_, _)
mem_read(m, addr) ==
    IF addr <= \h1FFF
    THEN [m |-> m, v |-> Load(m.bus.cpu_vram, ram_mirror_down_addr(addr), 0)]
    ELSE IF addr \in {\h2000, \h2001, \h2003, \h2005, \h2006}
    THEN [m |-> m, v |-> 0]
    ELSE IF addr = \h2002
    THEN Bind(read_status_register(m.ppu),
              LAMBDA r : [m |-> [m EXCEPT !.ppu = r.p], v |-> r.v])
    ELSE IF addr = \h2004
    THEN [m |-> m, v |-> read_oam_data(m.ppu)]
    ELSE IF addr = \h2007
    THEN Bind(read_data(m.ppu),
              LAMBDA r : [m |-> [m EXCEPT !.ppu = r.p], v |-> r.v])
    ELSE IF addr <= \h3FFF
    THEN mem_read(m, reg_mirror_down_addr(addr))
    ELSE IF addr = \h4014
    THEN [m |-> m, v |-> 0]
    ELSE IF addr \in {\h4016, \h4017}
    THEN read_controller(m, addr)
    ELSE IF addr >= \h8000
    THEN [m |-> m, v |-> read_prg_rom(m.cart, addr)]
    ELSE [m |-> m, v |-> 0]

\* Bus::mem_write, the 0x4014 arm: the iterations first..last of
\* `for i in 0..=255`, each a mem_read(base + i) and a write_to_oam_data.
\* A range of several iterations is its first half, then, from the machine
\* that half has left, its second; the test on that machine's OAM address,
\* true of every machine, has TLC carry out the first half before the second.
RECURSIVE oam_dma(_, _, _, _)
oam_dma(m, base, first, last) ==
    IF first = last
    THEN Bind(mem_read(m, base + first),
              LAMBDA r : [r.m EXCEPT !.ppu = write_to_oam_data(@, r.v)])
    ELSE Bind(oam_dma(m, base, first, (first + last) \div 2),
              LAMBDA half : IF half.ppu.oam_addr \in 0..255
                            THEN oam_dma(half, base, ((first + last) \div 2) + 1, last)
                            ELSE half)

\* Bus::mem_write
RECURSIVE mem_write(_, _, _)
mem_write(m, addr, data) ==
    IF addr <= \h1FFF
    THEN [m EXCEPT !.bus.cpu_vram = Store(@, ram_mirror_down_addr(addr), data, 0)]
    ELSE IF addr = \h2000 THEN [m EXCEPT !.ppu = write_to_control_register(@, data)]
    ELSE IF addr = \h2001 THEN [m EXCEPT !.ppu = write_to_mask_register(@, data)]
    ELSE IF addr = \h2002 THEN m
    ELSE IF addr = \h2003 THEN [m EXCEPT !.ppu = write_to_oam_address(@, data)]
    ELSE IF addr = \h2004 THEN [m EXCEPT !.ppu = write_to_oam_data(@, data)]
    ELSE IF addr = \h2005 THEN [m EXCEPT !.ppu = write_to_scroll_register(@, data)]
    ELSE IF addr = \h2006 THEN [m EXCEPT !.ppu = write_to_address_register(@, data)]
    ELSE IF addr = \h2007 THEN [m EXCEPT !.ppu = write_data(@, data)]
    ELSE IF addr <= \h3FFF THEN mem_write(m, reg_mirror_down_addr(addr), data)
    ELSE IF addr = \h4014 THEN oam_dma(m, data * 256, 0, 255)
    ELSE IF addr = \h4016
    THEN LET strobe == BitAnd(data, \h01) = \h01
             m1 == [m EXCEPT !.bus.controller_strobe = strobe]
         IN  IF strobe
             THEN [m1 EXCEPT !.bus.controller_state = m1.bus.controller]
             ELSE m1
    ELSE m

(***************************************************************************)
(* opcodes.rs: the dispatch table (mnemonic, addressing mode, base cycles  *)
(* of each opcode).  The official opcodes, as <<opcode, operate, addrmode, *)
(* cycles>>; the absolute-X no-ops; every other opcode is XXX.             *)
(***************************************************************************)
OfficialOpcodes ==
    { <<\h69, "ADC", "IMM", 2>>, <<\h65, "ADC", "ZP0", 3>>, <<\h75, "ADC", "ZPX", 4>>,
      <<\h6D, "ADC", "ABS", 4>>, <<\h7D, "ADC", "ABX", 4>>, <<\h79, "ADC", "ABY", 4>>,
      <<\h61, "ADC", "IZX", 6>>, <<\h71, "ADC", "IZY", 5>>,
      <<\h29, "AND", "IMM", 2>>, <<\h25, "AND", "ZP0", 3>>, <<\h35, "AND", "ZPX", 4>>,
      <<\h2D, "AND", "ABS", 4>>, <<\h3D, "AND", "ABX", 4>>, <<\h39, "AND", "ABY", 4>>,
      <<\h21, "AND", "IZX", 6>>, <<\h31, "AND", "IZY", 5>>,
      <<\h0A, "ASL", "IMP", 2>>, <<\h06, "ASL", "ZP0", 5>>, <<\h16, "ASL", "ZPX", 6>>,
      <<\h0E, "ASL", "ABS", 6>>, <<\h1E, "ASL", "ABX", 7>>,
      <<\h90, "BCC", "REL", 2>>, <<\hB0, "BCS", "REL", 2>>, <<\hF0, "BEQ", "REL", 2>>,
      <<\h30, "BMI", "REL", 2>>, <<\hD0, "BNE", "REL", 2>>, <<\h10, "BPL", "REL", 2>>,
      <<\h50, "BVC", "REL", 2>>, <<\h70, "BVS", "REL", 2>>,
      <<\h24, "BIT", "ZP0", 3>>, <<\h2C, "BIT", "ABS", 4>>,
      <<\h00, "BRK", "IMP", 7>>,
      <<\h18, "CLC", "IMP", 2>>, <<\hD8, "CLD", "IMP", 2>>, <<\h58, "CLI", "IMP", 2>>,
      <<\hB8, "CLV", "IMP", 2>>,
      <<\hC9, "CMP", "IMM", 2>>, <<\hC5, "CMP", "ZP0", 3>>, <<\hD5, "CMP", "ZPX", 4>>,
      <<\hCD, "CMP", "ABS", 4>>, <<\hDD, "CMP", "ABX", 4>>, <<\hD9, "CMP", "ABY", 4>>,
      <<\hC1, "CMP", "IZX", 6>>, <<\hD1, "CMP", "IZY", 5>>,
      <<\hE0, "CPX", "IMM", 2>>, <<\hE4, "CPX", "ZP0", 3>>, <<\hEC, "CPX", "ABS", 4>>,
      <<\hC0, "CPY", "IMM", 2>>, <<\hC4, "CPY", "ZP0", 3>>, <<\hCC, "CPY", "ABS", 4>>,
      <<\hC6, "DEC", "ZP0", 5>>, <<\hD6, "DEC", "ZPX", 6>>, <<\hCE, "DEC", "ABS", 6>>,
      <<\hDE, "DEC", "ABX", 7>>,
      <<\hCA, "DEX", "IMP", 2>>, <<\h88, "DEY", "IMP", 2>>,
      <<\h49, "EOR", "IMM", 2>>, <<\h45, "EOR", "ZP0", 3>>, <<\h55, "EOR", "ZPX", 4>>,
      <<\h4D, "EOR", "ABS", 4>>, <<\h5D, "EOR", "ABX", 4>>, <<\h59, "EOR", "ABY", 4>>,
      <<\h41, "EOR", "IZX", 6>>, <<\h51, "EOR", "IZY", 5>>,
      <<\hE6, "INC", "ZP0", 5>>, <<\hF6, "INC", "ZPX", 6>>, <<\hEE, "INC", "ABS", 6>>,
      <<\hFE, "INC", "ABX", 7>>,
      <<\hE8, "INX", "IMP", 2>>, <<\hC8, "INY", "IMP", 2>>,
      <<\h4C, "JMP", "ABS", 3>>, <<\h6C, "JMP", "IND", 5>>,
      <<\h20, "JSR", "ABS", 6>>,
      <<\hA9, "LDA", "IMM", 2>>, <<\hA5, "LDA", "ZP0", 3>>, <<\hB5, "LDA", "ZPX", 4>>,
      <<\hAD, "LDA", "ABS", 4>>, <<\hBD, "LDA", "ABX", 4>>, <<\hB9, "LDA", "ABY", 4>>,
      <<\hA1, "LDA", "IZX", 6>>, <<\hB1, "LDA", "IZY", 5>>,
      <<\hA2, "LDX", "IMM", 2>>, <<\hA6, "LDX", "ZP0", 3>>, <<\hB6, "LDX", "ZPY", 4>>,
      <<\hAE, "LDX", "ABS", 4>>, <<\hBE, "LDX", "ABY", 4>>,
      <<\hA0, "LDY", "IMM", 2>>, <<\hA4, "LDY", "ZP0", 3>>, <<\hB4, "LDY", "ZPX", 4>>,
      <<\hAC, "LDY", "ABS", 4>>, <<\hBC, "LDY", "ABX", 4>>,
      <<\h4A, "LSR", "IMP", 2>>, <<\h46, "LSR", "ZP0", 5>>, <<\h56, "LSR", "ZPX", 6>>,
      <<\h4E, "LSR", "ABS", 6>>, <<\h5E, "LSR", "ABX", 7>>,
      <<\hEA, "NOP", "IMP", 2>>,
      <<\h1C, "NOP", "ABX", 4>>, <<\h3C, "NOP", "ABX", 4>>, <<\h5C, "NOP", "ABX", 4>>,
      <<\h7C, "NOP", "ABX", 4>>, <<\hDC, "NOP", "ABX", 4>>, <<\hFC, "NOP", "ABX", 4>>,
      <<\h09, "ORA", "IMM", 2>>, <<\h05, "ORA", "ZP0", 3>>, <<\h15, "ORA", "ZPX", 4>>,
      <<\h0D, "ORA", "ABS", 4>>, <<\h1D, "ORA", "ABX", 4>>, <<\h19, "ORA", "ABY", 4>>,
      <<\h01, "ORA", "IZX", 6>>, <<\h11, "ORA", "IZY", 5>>,
      <<\h48, "PHA", "IMP", 3>>, <<\h08, "PHP", "IMP", 3>>, <<\h68, "PLA", "IMP", 4>>,
      <<\h28, "PLP", "IMP", 4>>,
      <<\h2A, "ROL", "IMP", 2>>, <<\h26, "ROL", "ZP0", 5>>, <<\h36, "ROL", "ZPX", 6>>,
      <<\h2E, "ROL", "ABS", 6>>, <<\h3E, "ROL", "ABX", 7>>,
      <<\h6A, "ROR", "IMP", 2>>, <<\h66, "ROR", "ZP0", 5>>, <<\h76, "ROR", "ZPX", 6>>,
      <<\h6E, "ROR", "ABS", 6>>, <<\h7E, "ROR", "ABX", 7>>,
      <<\h40, "RTI", "IMP", 6>>, <<\h60, "RTS", "IMP", 6>>,
      <<\hE9, "SBC", "IMM", 2>>, <<\hE5, "SBC", "ZP0", 3>>, <<\hF5, "SBC", "ZPX", 4>>,
      <<\hED, "SBC", "ABS", 4>>, <<\hFD, "SBC", "ABX", 4>>, <<\hF9, "SBC", "ABY", 4>>,
      <<\hE1, "SBC", "IZX", 6>>, <<\hF1, "SBC", "IZY", 5>>,
      <<\h38, "SEC", "IMP", 2>>, <<\hF8, "SED", "IMP", 2>>, <<\h78, "SEI", "IMP", 2>>,
      <<\h85, "STA", "ZP0", 3>>, <<\h95, "STA", "ZPX", 4>>, <<\h8D, "STA", "ABS", 4>>,
      <<\h9D, "STA", "ABX", 5>>, <<\h99, "STA", "ABY", 5>>, <<\h81, "STA", "IZX", 6>>,
      <<\h91, "STA", "IZY", 6>>,
      <<\h86, "STX", "ZP0", 3>>, <<\h96, "STX", "ZPY", 4>>, <<\h8E, "STX", "ABS", 4>>,
      <<\h84, "STY", "ZP0", 3>>, <<\h94, "STY", "ZPX", 4>>, <<\h8C, "STY", "ABS", 4>>,
      <<\hAA, "TAX", "IMP", 2>>, <<\hA8, "TAY", "IMP", 2>>, <<\hBA, "TSX", "IMP", 2>>,
      <<\h8A, "TXA", "IMP", 2>>, <<\h9A, "TXS", "IMP", 2>>, <<\h98, "TYA", "IMP", 2>> }

\* the table entry of an opcode: that of its row, XXX where it has none
Instruction(table, op) ==
    IF \E e \in table : e[1] = op
    THEN Bind(CHOOSE e \in table : e[1] = op,
              LAMBDA e : [operate |-> e[2], addrmode |-> e[3], cycles |-> e[4]])
    ELSE [operate |-> "XXX", addrmode |-> "IMP", cycles |-> 2]

INSTRUCTION_LOOKUP == [op \in 0..255 |-> Instruction(OfficialOpcodes, op)]

(***************************************************************************)
(* cpu.rs                                                                  *)
(***************************************************************************)
StatusFlag == [C |-> 1, Z |-> 2, I |-> 4, D |-> 8, B |-> 16, U |-> 32, V |-> 64, N |-> 128]

\* The u32 system_clock_counter, held as two 16-bit limbs [hi, lo] (value
\* hi * 65536 + lo): TLC evaluates in signed 32-bit integers.
Wide(hi, lo) == [hi |-> hi, lo |-> lo]

\* n % 3 (65536 % 3 = 1)
WideMod3(n) == ((n.hi % 3) + (n.lo % 3)) % 3

\* n + 1 on a u32, wrapping at 2^32 as the release build does
U32Inc(n) ==
    IF n.lo < 65535 THEN [n EXCEPT !.lo = n.lo + 1]
    ELSE IF n.hi < 65535 THEN Wide(n.hi + 1, 0)
    ELSE Wide(0, 0)

\* CPU::new (registers; the bus and the cartridge are the machine's other fields)
CPU_new ==
    [accumulator |-> 0, x_register |-> 0, y_register |-> 0, stack_pointer |-> 0,
     program_counter |-> 0, status |-> 0, fetched |-> 0, addr_abs |-> 0,
     addr_rel |-> 0, opcode |-> 0, cycles |-> 0, system_clock_counter |-> Wide(0, 0)]

\* the machine CPU::new(cartridge) builds
Machine_new(c) ==
    [cpu |-> CPU_new, bus |-> Bus_new,
     ppu |-> PPU_new(c.chr_rom, c.mirror, c.chr_is_ram),
     cart |-> c, events |-> <<>>]

Log(m, ev) == [m EXCEPT !.events = Append(@, ev)]

\* the result of an addressing mode or of an operation: the machine and the
\* additional-cycle value it returns
R(m, c) == [m |-> m, c |-> c]

\* CPU::read, CPU::write
read(m, addr) == mem_read(m, addr)
write(m, addr, data) == mem_write(m, addr, data)

\* CPU::set_flag, CPU::get_flag
set_flag(m, flag, value) ==
    [m EXCEPT !.cpu.status = IF value THEN BitOr(@, flag) ELSE BitAnd(@, Not8(flag))]

get_flag(m, flag) == IF BitAnd(m.cpu.status, flag) > 0 THEN 1 ELSE 0

\* set_flag(Z, z); set_flag(N, n)
set_zn(m, z, n) == set_flag(set_flag(m, StatusFlag.Z, z), StatusFlag.N, n)

\* self.program_counter += 1
pc_inc(m) == [m EXCEPT !.cpu.program_counter = U16(@ + 1)]

(* Addressing modes *)
imp(m) == R([m EXCEPT !.cpu.fetched = m.cpu.accumulator], 0)

imm(m) == R(pc_inc([m EXCEPT !.cpu.addr_abs = m.cpu.program_counter]), 0)

zp0(m) ==
    Bind(read(m, m.cpu.program_counter),
         LAMBDA r : R(pc_inc([r.m EXCEPT !.cpu.addr_abs = BitAnd(r.v, \h00FF)]), 0))

zpx(m) ==
    Bind(read(m, m.cpu.program_counter),
         LAMBDA r : R(pc_inc([r.m EXCEPT !.cpu.addr_abs =
                                 BitAnd(U8(r.v + r.m.cpu.x_register), \h00FF)]), 0))

zpy(m) ==
    Bind(read(m, m.cpu.program_counter),
         LAMBDA r : R(pc_inc([r.m EXCEPT !.cpu.addr_abs =
                                 BitAnd(U8(r.v + r.m.cpu.y_register), \h00FF)]), 0))

\* the two-byte little-endian operand at the program counter: the machine
\* afterwards, and the bytes read
operand16(m) ==
    Bind(read(m, m.cpu.program_counter),
         LAMBDA lo :
           Bind(read(pc_inc(lo.m), U16(lo.m.cpu.program_counter + 1)),
                LAMBDA hi : [m |-> pc_inc(hi.m), lo |-> lo.v, hi |-> hi.v]))

abs(m) ==
    Bind(operand16(m),
         LAMBDA o : R([o.m EXCEPT !.cpu.addr_abs = BitOr(o.hi * 256, o.lo)], 0))

abx(m) ==
    Bind(operand16(m),
         LAMBDA o :
           LET a == U16(BitOr(o.hi * 256, o.lo) + o.m.cpu.x_register)
           IN  R([o.m EXCEPT !.cpu.addr_abs = a],
                 IF BitAnd(a, \hFF00) # o.hi * 256 THEN 1 ELSE 0))

aby(m) ==
    Bind(operand16(m),
         LAMBDA o :
           LET a == U16(BitOr(o.hi * 256, o.lo) + o.m.cpu.y_register)
           IN  R([o.m EXCEPT !.cpu.addr_abs = a],
                 IF BitAnd(a, \hFF00) # o.hi * 256 THEN 1 ELSE 0))

\* an indirect mode that always takes the high byte from ptr + 1
ind_carried(m) ==
    Bind(operand16(m),
         LAMBDA o :
           LET ptr == BitOr(o.hi * 256, o.lo)
           IN  Bind(read(o.m, U16(ptr + 1)),
                    LAMBDA h :
                      Bind(read(h.m, ptr),
                           LAMBDA l : R([l.m EXCEPT !.cpu.addr_abs =
                                            BitOr(h.v * 256, l.v)], 0))))

ind(m) ==
    Bind(operand16(m),
         LAMBDA o :
           LET ptr == BitOr(o.hi * 256, o.lo)
           IN  Bind(read(o.m, IF o.lo = \h00FF THEN BitAnd(ptr, \hFF00)
                              ELSE U16(ptr + 1)),
                    LAMBDA h :
                      Bind(read(h.m, ptr),
                           LAMBDA l : R([l.m EXCEPT !.cpu.addr_abs =
                                            BitOr(h.v * 256, l.v)], 0))))

izx(m) ==
    Bind(read(m, m.cpu.program_counter),
         LAMBDA t :
           Bind(read(pc_inc(t.m), BitAnd(t.v + t.m.cpu.x_register, \h00FF)),
                LAMBDA lo :
                  Bind(read(lo.m, BitAnd(t.v + lo.m.cpu.x_register + 1, \h00FF)),
                       LAMBDA hi : R([hi.m EXCEPT !.cpu.addr_abs =
                                         BitOr(hi.v * 256, lo.v)], 0))))

izy(m) ==
    Bind(read(m, m.cpu.program_counter),
         LAMBDA t :
           Bind(read(pc_inc(t.m), BitAnd(t.v, \h00FF)),
                LAMBDA lo :
                  Bind(read(lo.m, BitAnd(t.v + 1, \h00FF)),
                       LAMBDA hi :
                         LET a == U16(BitOr(hi.v * 256, lo.v) + hi.m.cpu.y_register)
                         IN  R([hi.m EXCEPT !.cpu.addr_abs = a],
                               IF BitAnd(a, \hFF00) # hi.v * 256 THEN 1 ELSE 0))))

rel(m) ==
    Bind(read(m, m.cpu.program_counter),
         LAMBDA r :
           R(pc_inc([r.m EXCEPT !.cpu.addr_rel =
                        IF BitAnd(r.v, \h80) # 0 THEN BitOr(r.v, \hFF00) ELSE r.v]), 0))

\* CPU::fetch
fetch(m) ==
    IF INSTRUCTION_LOOKUP[m.cpu.opcode].addrmode # "IMP"
    THEN Bind(read(m, m.cpu.addr_abs), LAMBDA r : [r.m EXCEPT !.cpu.fetched = r.v])
    ELSE m

\* self.write(0x0100 + self.stack_pointer as u16, v); stack_pointer.wrapping_sub(1)
push(m, v) ==
    LET m1 == write(m, \h0100 + m.cpu.stack_pointer, v)
    IN  [m1 EXCEPT !.cpu.stack_pointer = U8(@ + 255)]

\* stack_pointer.wrapping_add(1); self.read(0x0100 + self.stack_pointer as u16)
pop(m) ==
    LET m1 == [m EXCEPT !.cpu.stack_pointer = U8(@ + 1)]
    IN  read(m1, \h0100 + m1.cpu.stack_pointer)

(* Instructions *)
and(m) ==
    Bind(fetch(m),
         LAMBDA m1 :
           LET a == BitAnd(m1.cpu.accumulator, m1.cpu.fetched)
           IN  R(set_zn([m1 EXCEPT !.cpu.accumulator = a], a = 0, BitAnd(a, \h80) # 0), 1))

\* a taken branch that never pays for the page of its target
branch_flat(m, taken) ==
    IF taken
    THEN LET a == U16(m.cpu.program_counter + m.cpu.addr_rel)
         IN  R([m EXCEPT !.cpu.cycles = U8(@ + 1), !.cpu.addr_abs = a,
                         !.cpu.program_counter = a], 0)
    ELSE R(m, 0)

\* the body the eight branch instructions share, given their flag condition
branch(m, taken) ==
    IF taken
    THEN LET pc == m.cpu.program_counter
             a == U16(pc + m.cpu.addr_rel)
             c == IF BitAnd(a, \hFF00) # BitAnd(pc, \hFF00) THEN 2 ELSE 1
         IN  R([m EXCEPT !.cpu.cycles = U8(@ + c), !.cpu.addr_abs = a,
                         !.cpu.program_counter = a], 0)
    ELSE R(m, 0)

bcs(m) == branch(m, get_flag(m, StatusFlag.C) = 1)
bcc(m) == branch(m, get_flag(m, StatusFlag.C) = 0)
beq(m) == branch(m, get_flag(m, StatusFlag.Z) = 1)
bmi(m) == branch(m, get_flag(m, StatusFlag.N) = 1)
bne(m) == branch(m, get_flag(m, StatusFlag.Z) = 0)
bpl(m) == branch(m, get_flag(m, StatusFlag.N) = 0)
bvc(m) == branch(m, get_flag(m, StatusFlag.V) = 0)
bvs(m) == branch(m, get_flag(m, StatusFlag.V) = 1)

jmp(m) == R([m EXCEPT !.cpu.program_counter = m.cpu.addr_abs], 0)

\* a call that pushes the address of the next instruction
jsr_next(m) ==
    Bind(push(push(m, m.cpu.program_counter \div 256), U8(m.cpu.program_counter)),
         LAMBDA m2 : R([m2 EXCEPT !.cpu.program_counter = m2.cpu.addr_abs], 0))

jsr(m) ==
    LET pc == U16(m.cpu.program_counter + 65535)
    IN  Bind(push(push(m, pc \div 256), U8(pc)),
             LAMBDA m2 : R([m2 EXCEPT !.cpu.program_counter = m2.cpu.addr_abs], 0))

lda(m) ==
    Bind(fetch(m),
         LAMBDA m1 :
           LET v == m1.cpu.fetched
           IN  R(set_zn([m1 EXCEPT !.cpu.accumulator = v], v = 0, BitAnd(v, \h80) # 0), 1))

ldx(m) ==
    Bind(fetch(m),
         LAMBDA m1 :
           LET v == m1.cpu.fetched
           IN  R(set_zn([m1 EXCEPT !.cpu.x_register = v], v = 0, BitAnd(v, \h80) # 0), 1))

ldy(m) ==
    Bind(fetch(m),
         LAMBDA m1 :
           LET v == m1.cpu.fetched
           IN  R(set_zn([m1 EXCEPT !.cpu.y_register = v], v = 0, BitAnd(v, \h80) # 0), 1))

clc(m) == R(set_flag(m, StatusFlag.C, FALSE), 0)
cld(m) == R(set_flag(m, StatusFlag.D, FALSE), 0)
cli(m) == R(set_flag(m, StatusFlag.I, FALSE), 0)
clv(m) == R(set_flag(m, StatusFlag.V, FALSE), 0)
sec(m) == R(set_flag(m, StatusFlag.C, TRUE), 0)
sed(m) == R(set_flag(m, StatusFlag.D, TRUE), 0)
sei(m) == R(set_flag(m, StatusFlag.I, TRUE), 0)

\* a store that returns the additional-cycle value of a load
sta_pays(m) == R(write(m, m.cpu.addr_abs, m.cpu.accumulator), 1)

sta(m) == R(write(m, m.cpu.addr_abs, m.cpu.accumulator), 0)
stx(m) == R(write(m, m.cpu.addr_abs, m.cpu.x_register), 0)
sty(m) == R(write(m, m.cpu.addr_abs, m.cpu.y_register), 0)

tax(m) ==
    LET v == m.cpu.accumulator
    IN  R(set_zn([m EXCEPT !.cpu.x_register = v], v = 0, BitAnd(v, \h80) # 0), 0)

tay(m) ==
    LET v == m.cpu.accumulator
    IN  R(set_zn([m EXCEPT !.cpu.y_register = v], v = 0, BitAnd(v, \h80) # 0), 0)

tsx(m) ==
    LET v == m.cpu.stack_pointer
    IN  R(set_zn([m EXCEPT !.cpu.x_register = v], v = 0, BitAnd(v, \h80) # 0), 0)

txa(m) ==
    LET v == m.cpu.x_register
    IN  R(set_zn([m EXCEPT !.cpu.accumulator = v], v = 0, BitAnd(v, \h80) # 0), 0)

txs(m) == R([m EXCEPT !.cpu.stack_pointer = m.cpu.x_register], 0)

tya(m) ==
    LET v == m.cpu.y_register
    IN  R(set_zn([m EXCEPT !.cpu.accumulator = v], v = 0, BitAnd(v, \h80) # 0), 0)

\* an ADC that reports the carry out of bit 7 as the overflow
adc_overflow_is_carry(m) ==
    Bind(fetch(m),
         LAMBDA m1 :
           LET a == m1.cpu.accumulator
               f == m1.cpu.fetched
               temp == a + f + get_flag(m1, StatusFlag.C)
               m2 == set_flag(m1, StatusFlag.C, temp > 255)
               m3 == set_flag(m2, StatusFlag.Z, BitAnd(temp, \h00FF) = 0)
               m4 == set_flag(m3, StatusFlag.N, BitAnd(temp, \h80) # 0)
               m5 == set_flag(m4, StatusFlag.V, temp > 255)
           IN  R([m5 EXCEPT !.cpu.accumulator = U8(temp)], 1))

adc(m) ==
    Bind(fetch(m),
         LAMBDA m1 :
           LET a == m1.cpu.accumulator
               f == m1.cpu.fetched
               temp == a + f + get_flag(m1, StatusFlag.C)
               v == BitAnd(BitAnd(Not8(BitXor(a, f)), BitXor(a, U8(temp))), \h80) # 0
               m2 == set_flag(m1, StatusFlag.C, temp > 255)
               m3 == set_flag(m2, StatusFlag.Z, BitAnd(temp, \h00FF) = 0)
               m4 == set_flag(m3, StatusFlag.N, BitAnd(temp, \h80) # 0)
               m5 == set_flag(m4, StatusFlag.V, v)
           IN  R([m5 EXCEPT !.cpu.accumulator = U8(temp)], 1))

\* a subtraction that adds the two's complement of the operand
sbc_negated(m) ==
    Bind(fetch(m),
         LAMBDA m1 :
           LET a == m1.cpu.accumulator
               value == BitXor(m1.cpu.fetched, \h00FF) + 1
               temp == a + value + get_flag(m1, StatusFlag.C)
               v == BitAnd(BitAnd(BitXor(temp, a), BitXor(temp, value)), \h0080) # 0
               m2 == set_flag(m1, StatusFlag.C, BitAnd(temp, \hFF00) # 0)
               m3 == set_flag(m2, StatusFlag.Z, BitAnd(temp, \h00FF) = 0)
               m4 == set_flag(m3, StatusFlag.V, v)
               m5 == set_flag(m4, StatusFlag.N, BitAnd(temp, \h0080) # 0)
           IN  R([m5 EXCEPT !.cpu.accumulator = U8(temp)], 1))

sbc(m) ==
    Bind(fetch(m),
         LAMBDA m1 :
           LET a == m1.cpu.accumulator
               value == BitXor(m1.cpu.fetched, \h00FF)
               temp == a + value + get_flag(m1, StatusFlag.C)
               v == BitAnd(BitAnd(BitXor(temp, a), BitXor(temp, value)), \h0080) # 0
               m2 == set_flag(m1, StatusFlag.C, BitAnd(temp, \hFF00) # 0)
               m3 == set_flag(m2, StatusFlag.Z, BitAnd(temp, \h00FF) = 0)
               m4 == set_flag(m3, StatusFlag.V, v)
               m5 == set_flag(m4, StatusFlag.N, BitAnd(temp, \h0080) # 0)
           IN  R([m5 EXCEPT !.cpu.accumulator = U8(temp)], 1))

\* the write-back the shifts and rotates share: the accumulator under IMP,
\* memory at addr_abs otherwise
write_back(m, temp) ==
    IF INSTRUCTION_LOOKUP[m.cpu.opcode].addrmode = "IMP"
    THEN [m EXCEPT !.cpu.accumulator = U8(temp)]
    ELSE write(m, m.cpu.addr_abs, U8(temp))

asl(m) ==
    Bind(fetch(m),
         LAMBDA m1 :
           LET temp == m1.cpu.fetched * 2
               m2 == set_flag(m1, StatusFlag.C, BitAnd(temp, \hFF00) > 0)
           IN  R(write_back(set_zn(m2, BitAnd(temp, \h00FF) = 0, BitAnd(temp, \h0080) # 0), temp), 0))

lsr(m) ==
    Bind(fetch(m),
         LAMBDA m1 :
           LET temp == m1.cpu.fetched \div 2
               m2 == set_flag(m1, StatusFlag.C, BitAnd(temp, \h0001) # 0)
           IN  R(write_back(set_zn(m2, BitAnd(temp, \h00FF) = 0, BitAnd(temp, \h0080) # 0), temp), 0))

rol(m) ==
    Bind(fetch(m),
         LAMBDA m1 :
           LET temp == BitOr(m1.cpu.fetched * 2, get_flag(m1, StatusFlag.C))
               m2 == set_flag(m1, StatusFlag.C, BitAnd(temp, \hFF00) # 0)
           IN  R(write_back(set_zn(m2, BitAnd(temp, \h00FF) = 0, BitAnd(temp, \h0080) # 0), temp), 0))

ror(m) ==
    Bind(fetch(m),
         LAMBDA m1 :
           LET temp == BitOr(get_flag(m1, StatusFlag.C) * 128, m1.cpu.fetched \div 2)
               m2 == set_flag(m1, StatusFlag.C, BitAnd(m1.cpu.fetched, \h01) # 0)
           IN  R(write_back(set_zn(m2, BitAnd(temp, \h00FF) = 0, BitAnd(temp, \h0080) # 0), temp), 0))

\* the comparison CMP, CPX and CPY share, given the register compared
compare(m1, reg) ==
    LET temp == U8(reg + 256 - m1.cpu.fetched)
        m2 == set_flag(m1, StatusFlag.C, reg >= m1.cpu.fetched)
    IN  set_zn(m2, BitAnd(temp, \h00FF) = 0, BitAnd(temp, \h0080) # 0)

cmp(m) == Bind(fetch(m), LAMBDA m1 : R(compare(m1, m1.cpu.accumulator), 1))
cpx(m) == Bind(fetch(m), LAMBDA m1 : R(compare(m1, m1.cpu.x_register), 0))
cpy(m) == Bind(fetch(m), LAMBDA m1 : R(compare(m1, m1.cpu.y_register), 0))

inc(m) ==
    Bind(fetch(m),
         LAMBDA m1 :
           LET temp == m1.cpu.fetched + 1
               m2 == write(m1, m1.cpu.addr_abs, U8(temp))
           IN  R(set_zn(m2, BitAnd(temp, \h00FF) = 0, BitAnd(temp, \h0080) # 0), 0))

dec(m) ==
    Bind(fetch(m),
         LAMBDA m1 :
           LET temp == U8(m1.cpu.fetched + 255)
               m2 == write(m1, m1.cpu.addr_abs, U8(temp))
           IN  R(set_zn(m2, BitAnd(temp, \h00FF) = 0, BitAnd(temp, \h0080) # 0), 0))

inx(m) ==
    LET v == U8(m.cpu.x_register + 1)
    IN  R(set_zn([m EXCEPT !.cpu.x_register = v], v = 0, BitAnd(v, \h80) # 0), 0)

iny(m) ==
    LET v == U8(m.cpu.y_register + 1)
    IN  R(set_zn([m EXCEPT !.cpu.y_register = v], v = 0, BitAnd(v, \h80) # 0), 0)

dex(m) ==
    LET v == U8(m.cpu.x_register + 255)
    IN  R(set_zn([m EXCEPT !.cpu.x_register = v], v = 0, BitAnd(v, \h80) # 0), 0)

dey(m) ==
    LET v == U8(m.cpu.y_register + 255)
    IN  R(set_zn([m EXCEPT !.cpu.y_register = v], v = 0, BitAnd(v, \h80) # 0), 0)

eor(m) ==
    Bind(fetch(m),
         LAMBDA m1 :
           LET a == BitXor(m1.cpu.accumulator, m1.cpu.fetched)
           IN  R(set_zn([m1 EXCEPT !.cpu.accumulator = a], a = 0, BitAnd(a, \h80) # 0), 1))

ora(m) ==
    Bind(fetch(m),
         LAMBDA m1 :
           LET a == BitOr(m1.cpu.accumulator, m1.cpu.fetched)
           IN  R(set_zn([m1 EXCEPT !.cpu.accumulator = a], a = 0, BitAnd(a, \h80) # 0), 1))

bit(m) ==
    Bind(fetch(m),
         LAMBDA m1 :
           LET temp == BitAnd(m1.cpu.accumulator, m1.cpu.fetched)
               m2 == set_zn(m1, BitAnd(temp, \h00FF) = 0, BitAnd(m1.cpu.fetched, 128) # 0)
           IN  R(set_flag(m2, StatusFlag.V, BitAnd(m1.cpu.fetched, 64) # 0), 0))

pha(m) == R(push(m, m.cpu.accumulator), 0)

\* a PHP that pushes the status as it is
php_plain(m) ==
    LET m1 == write(m, \h0100 + m.cpu.stack_pointer, m.cpu.status)
        m2 == set_flag(set_flag(m1, StatusFlag.B, FALSE), StatusFlag.U, FALSE)
    IN  R([m2 EXCEPT !.cpu.stack_pointer = U8(@ + 255)], 0)

php(m) ==
    LET m1 == write(m, \h0100 + m.cpu.stack_pointer,
                    BitOr(BitOr(m.cpu.status, StatusFlag.B), StatusFlag.U))
        m2 == set_flag(set_flag(m1, StatusFlag.B, FALSE), StatusFlag.U, FALSE)
    IN  R([m2 EXCEPT !.cpu.stack_pointer = U8(@ + 255)], 0)

pla(m) ==
    Bind(pop(m),
         LAMBDA r :
           R(set_zn([r.m EXCEPT !.cpu.accumulator = r.v], r.v = 0, BitAnd(r.v, \h80) # 0), 0))

plp(m) ==
    Bind(pop(m),
         LAMBDA r : R(set_flag([r.m EXCEPT !.cpu.status = r.v], StatusFlag.U, TRUE), 0))

\* the interrupt entry irq and nmi share: push PC and P, load the vector
interrupt(m, vector, cycles) ==
    Bind(push(m, BitAnd(m.cpu.program_counter \div 256, \h00FF)),
         LAMBDA m1 :
           Bind(set_flag(set_flag(set_flag(
                    push(m1, BitAnd(m1.cpu.program_counter, \h00FF)),
                    StatusFlag.B, FALSE), StatusFlag.U, TRUE), StatusFlag.I, TRUE),
                LAMBDA m3 :
                  Bind(read([push(m3, m3.cpu.status) EXCEPT !.cpu.addr_abs = vector],
                            vector),
                       LAMBDA lo :
                         Bind(read(lo.m, vector + 1),
                              LAMBDA hi :
                                [hi.m EXCEPT
                                   !.cpu.program_counter = BitOr(hi.v * 256, lo.v),
                                   !.cpu.cycles = cycles]))))

irq(m) == IF get_flag(m, StatusFlag.I) = 0 THEN R(interrupt(m, \hFFFE, 7), 0) ELSE R(m, 0)

nmi(m) == R(interrupt(m, \hFFFA, 8), 0)

rti(m) ==
    Bind(pop(m),
         LAMBDA p :
           Bind(pop([p.m EXCEPT !.cpu.status =
                       BitAnd(BitAnd(p.v, Not8(StatusFlag.B)), Not8(StatusFlag.U))]),
                LAMBDA lo :
                  Bind(pop(lo.m),
                       LAMBDA hi : R([hi.m EXCEPT !.cpu.program_counter =
                                         BitOr(hi.v * 256, lo.v)], 0))))

rts(m) ==
    Bind(pop(m),
         LAMBDA lo :
           Bind(pop(lo.m),
                LAMBDA hi : R([hi.m EXCEPT !.cpu.program_counter =
                                  U16(BitOr(hi.v * 256, lo.v) + 1)], 0)))

brk(m) ==
    LET m0 == set_flag(pc_inc(m), StatusFlag.I, TRUE)
    IN  Bind(push(m0, BitAnd(m0.cpu.program_counter \div 256, \h00FF)),
             LAMBDA m1 :
               Bind(set_flag(push(m1, BitAnd(m1.cpu.program_counter, \h00FF)),
                             StatusFlag.B, TRUE),
                    LAMBDA m3 :
                      Bind(read([set_flag(push(m3, m3.cpu.status), StatusFlag.B, FALSE)
                                   EXCEPT !.cpu.addr_abs = \hFFFE], \hFFFE),
                           LAMBDA lo :
                             Bind(read(lo.m, \hFFFE + 1),
                                  LAMBDA hi :
                                    R([hi.m EXCEPT !.cpu.program_counter =
                                          BitOr(hi.v * 256, lo.v)], 0)))))

nop(m) == R(m, IF m.cpu.opcode \in {\h1C, \h3C, \h5C, \h7C, \hDC, \hFC} THEN 1 ELSE 0)

xxx(m) == R(m, 0)

\* CPU::reset
CPU_reset(m) ==
    Bind(read([m EXCEPT !.cpu.addr_abs = \hFFFC], \hFFFC),
         LAMBDA lo :
           Bind(read(lo.m, \hFFFC + 1),
                LAMBDA hi :
                  [hi.m EXCEPT !.cpu.program_counter = BitOr(hi.v * 256, lo.v),
                               !.cpu.accumulator = 0, !.cpu.x_register = 0,
                               !.cpu.y_register = 0, !.cpu.stack_pointer = \hFD,
                               !.cpu.status = BitOr(StatusFlag.U, StatusFlag.I),
                               !.cpu.addr_rel = 0, !.cpu.addr_abs = 0,
                               !.cpu.fetched = 0, !.cpu.cycles = 8]))

\* CPU::complete
complete(m) == m.cpu.cycles = 0

\* CPU::clock, the match on the addressing mode
addressing(m, mode) ==
    CASE mode = "IMP" -> imp(m) [] mode = "IMM" -> imm(m) [] mode = "ZP0" -> zp0(m)
      [] mode = "ZPX" -> zpx(m) [] mode = "ZPY" -> zpy(m) [] mode = "REL" -> rel(m)
      [] mode = "ABS" -> abs(m) [] mode = "ABX" -> abx(m) [] mode = "ABY" -> aby(m)
      [] mode = "IND" -> ind(m) [] mode = "IZX" -> izx(m) [] mode = "IZY" -> izy(m)

\* CPU::clock, the match on the operation
operate(m, op) ==
    CASE op = "ADC" -> adc(m) [] op = "AND" -> and(m) [] op = "ASL" -> asl(m)
      [] op = "BCC" -> bcc(m) [] op = "BCS" -> bcs(m) [] op = "BEQ" -> beq(m)
      [] op = "BIT" -> bit(m) [] op = "BMI" -> bmi(m) [] op = "BNE" -> bne(m)
      [] op = "BPL" -> bpl(m) [] op = "BRK" -> brk(m) [] op = "BVC" -> bvc(m)
      [] op = "BVS" -> bvs(m) [] op = "CLC" -> clc(m) [] op = "CLD" -> cld(m)
      [] op = "CLI" -> cli(m) [] op = "CLV" -> clv(m) [] op = "CMP" -> cmp(m)
      [] op = "CPX" -> cpx(m) [] op = "CPY" -> cpy(m) [] op = "DEC" -> dec(m)
      [] op = "DEX" -> dex(m) [] op = "DEY" -> dey(m) [] op = "EOR" -> eor(m)
      [] op = "INC" -> inc(m) [] op = "INX" -> inx(m) [] op = "INY" -> iny(m)
      [] op = "JMP" -> jmp(m) [] op = "JSR" -> jsr(m) [] op = "LDA" -> lda(m)
      [] op = "LDX" -> ldx(m) [] op = "LDY" -> ldy(m) [] op = "LSR" -> lsr(m)
      [] op = "NOP" -> nop(m) [] op = "ORA" -> ora(m) [] op = "PHA" -> pha(m)
      [] op = "PHP" -> php(m) [] op = "PLA" -> pla(m) [] op = "PLP" -> plp(m)
      [] op = "ROL" -> rol(m) [] op = "ROR" -> ror(m) [] op = "RTI" -> rti(m)
      [] op = "RTS" -> rts(m) [] op = "SBC" -> sbc(m) [] op = "SEC" -> sec(m)
      [] op = "SED" -> sed(m) [] op = "SEI" -> sei(m) [] op = "STA" -> sta(m)
      [] op = "STX" -> stx(m) [] op = "STY" -> sty(m) [] op = "TAX" -> tax(m)
      [] op = "TAY" -> tay(m) [] op = "TSX" -> tsx(m) [] op = "TXA" -> txa(m)
      [] op = "TXS" -> txs(m) [] op = "TYA" -> tya(m) [] op = "XXX" -> xxx(m)

\* the two additional-cycle values joined by OR
fetch_execute_or(m) ==
    Bind(read(m, m.cpu.program_counter),
         LAMBDA o :
           Bind(INSTRUCTION_LOOKUP[o.v],
                LAMBDA ins :
                  Bind(addressing(pc_inc([o.m EXCEPT !.cpu.opcode = o.v,
                                                     !.cpu.cycles = ins.cycles]),
                                  ins.addrmode),
                       LAMBDA a1 :
                         Bind(operate(a1.m, ins.operate),
                              LAMBDA a2 :
                                Bind(set_flag([a2.m EXCEPT !.cpu.cycles =
                                                  U8(@ + BitOr(a1.c, a2.c))],
                                              StatusFlag.U, TRUE),
                                     LAMBDA m4 :
                                       Log(m4, [e |-> "fetch", opcode |-> o.v,
                                                base |-> ins.cycles, add1 |-> a1.c,
                                                add2 |-> a2.c, cost |-> m4.cpu.cycles,
                                                before |-> m.cpu, mid |-> a1.m.cpu,
                                                after |-> m4.cpu]))))))

\* CPU::clock, the body of `if self.cycles == 0`: fetch, decode, execute.
\* The event records the opcode, the table's base cycles, the two
\* additional-cycle values, the cycle count the fetch leaves, and the
\* registers before the fetch, after the addressing mode and at the end.
fetch_execute(m) ==
    Bind(read(m, m.cpu.program_counter),
         LAMBDA o :
           Bind(INSTRUCTION_LOOKUP[o.v],
                LAMBDA ins :
                  Bind(addressing(pc_inc([o.m EXCEPT !.cpu.opcode = o.v,
                                                     !.cpu.cycles = ins.cycles]),
                                  ins.addrmode),
                       LAMBDA a1 :
                         Bind(operate(a1.m, ins.operate),
                              LAMBDA a2 :
                                Bind(set_flag([a2.m EXCEPT !.cpu.cycles =
                                                  U8(@ + BitAnd(a1.c, a2.c))],
                                              StatusFlag.U, TRUE),
                                     LAMBDA m4 :
                                       Log(m4, [e |-> "fetch", opcode |-> o.v,
                                                base |-> ins.cycles, add1 |-> a1.c,
                                                add2 |-> a2.c, cost |-> m4.cpu.cycles,
                                                before |-> m.cpu, mid |-> a1.m.cpu,
                                                after |-> m4.cpu]))))))

\* a CPU cycle that decrements without looking whether an opcode is due
cpu_cycle_blind(m) ==
    Log([m EXCEPT !.cpu.cycles = U8(@ + 255)], [e |-> "cpu", cycles |-> m.cpu.cycles])

\* CPU::clock, the body of `if self.system_clock_counter % 3 == 0`
cpu_cycle(m) ==
    Bind(IF m.cpu.cycles = 0 THEN fetch_execute(m) ELSE m,
         LAMBDA m1 : Log([m1 EXCEPT !.cpu.cycles = U8(@ + 255)],
                         [e |-> "cpu", cycles |-> m1.cpu.cycles]))

\* the NMI sequence run without lowering the line
nmi_poll_line_kept(m) ==
    IF m.ppu.nmi THEN Log(nmi(m).m, [e |-> "nmi", before |-> m.cpu]) ELSE m

\* CPU::clock, the nmi poll
nmi_poll(m) ==
    IF m.ppu.nmi
    THEN Log(nmi([m EXCEPT !.ppu.nmi = FALSE]).m, [e |-> "nmi", before |-> m.cpu])
    ELSE m

\* CPU::clock, `self.bus.ppu.clock()`.  The event records the PPU's position
\* and control register before the tick, the nmi line after it, the phase of
\* the system clock counter and the CPU's cycle count.
ppu_tick(m) ==
    Bind(PPU_clock(m.ppu),
         LAMBDA p :
           Log([m EXCEPT !.ppu = p],
               [e |-> "ppu", scanline |-> m.ppu.scanline, cycle |-> m.ppu.cycle,
                control |-> m.ppu.control_register, nmi |-> p.nmi,
                phase |-> WideMod3(m.cpu.system_clock_counter),
                cycles |-> m.cpu.cycles]))

\* the NMI poll placed before the CPU cycle
clock_poll_first(m) ==
    Bind(nmi_poll(ppu_tick(m)),
         LAMBDA m2 :
           [(IF WideMod3(m2.cpu.system_clock_counter) = 0 THEN cpu_cycle(m2) ELSE m2)
              EXCEPT !.cpu.system_clock_counter = U32Inc(@)])

\* CPU::clock
clock(m) ==
    Bind(ppu_tick(m),
         LAMBDA m1 :
           [nmi_poll(IF WideMod3(m1.cpu.system_clock_counter) = 0
                     THEN cpu_cycle(m1) ELSE m1)
              EXCEPT !.cpu.system_clock_counter = U32Inc(@)])

(***************************************************************************)
(* ppu.rs: the frame buffer.  `frame_buffer` maps the index y * 256 + x of *)
(* a pixel to its (R, G, B) and `background_index_buffer` maps it to the   *)
(* background colour index drawn there; both are kept for the pixels of a  *)
(* window only (Watched), every pixel being written independently of the   *)
(* others.  A buffer pair is b = [frame_buffer, background_index_buffer].  *)
(***************************************************************************)
SCREEN_WIDTH == 256
SCREEN_HEIGHT == 240

\* SYSTEM_PALLETE[v] of the source is SYSTEM_PALLETE[v + 1] here
SYSTEM_PALLETE ==
    <<
      <<\h80, \h80, \h80>>, <<\h00, \h3D, \hA6>>, <<\h00, \h12, \hB0>>, <<\h44, \h00, \h96>>,
      <<\hA1, \h00, \h5E>>, <<\hC7, \h00, \h28>>, <<\hBA, \h06, \h00>>, <<\h8C, \h17, \h00>>,
      <<\h5C, \h2F, \h00>>, <<\h10, \h45, \h00>>, <<\h05, \h4A, \h00>>, <<\h00, \h47, \h2E>>,
      <<\h00, \h41, \h66>>, <<\h00, \h00, \h00>>, <<\h05, \h05, \h05>>, <<\h05, \h05, \h05>>,
      <<\hC7, \hC7, \hC7>>, <<\h00, \h77, \hFF>>, <<\h21, \h55, \hFF>>, <<\h82, \h37, \hFA>>,
      <<\hEB, \h2F, \hB5>>, <<\hFF, \h29, \h50>>, <<\hFF, \h22, \h00>>, <<\hD6, \h32, \h00>>,
      <<\hC4, \h62, \h00>>, <<\h35, \h80, \h00>>, <<\h05, \h8F, \h00>>, <<\h00, \h8A, \h55>>,
      <<\h00, \h99, \hCC>>, <<\h21, \h21, \h21>>, <<\h09, \h09, \h09>>, <<\h09, \h09, \h09>>,
      <<\hFF, \hFF, \hFF>>, <<\h0F, \hD7, \hFF>>, <<\h69, \hA2, \hFF>>, <<\hD4, \h80, \hFF>>,
      <<\hFF, \h45, \hF3>>, <<\hFF, \h61, \h8B>>, <<\hFF, \h88, \h33>>, <<\hFF, \h9C, \h12>>,
      <<\hFA, \hBC, \h20>>, <<\h9F, \hE3, \h0E>>, <<\h2B, \hF0, \h35>>, <<\h0C, \hF0, \hA4>>,
      <<\h05, \hFB, \hFF>>, <<\h5E, \h5E, \h5E>>, <<\h0D, \h0D, \h0D>>, <<\h0D, \h0D, \h0D>>,
      <<\hFF, \hFF, \hFF>>, <<\hA6, \hFC, \hFF>>, <<\hB3, \hEC, \hFF>>, <<\hDA, \hAB, \hEB>>,
      <<\hFF, \hA8, \hF9>>, <<\hFF, \hAB, \hB3>>, <<\hFF, \hD2, \hB0>>, <<\hFF, \hEF, \hA6>>,
      <<\hFF, \hF7, \h9C>>, <<\hD7, \hE8, \h95>>, <<\hA6, \hED, \hAF>>, <<\hA2, \hF2, \hDA>>,
      <<\h99, \hFF, \hFC>>, <<\hDD, \hDD, \hDD>>, <<\h11, \h11, \h11>>, <<\h11, \h11, \h11>>
    >>

Black == <<0, 0, 0>>

\* the pixels whose content is kept
Watched(x, y) == (y \in 20..21 /\ x \in 18..25) \/ (y = 0 /\ x \in 0..1)

\* PPU::new, `frame_buffer` and `background_index_buffer`: all zero
NoPixels == [frame_buffer |-> Empty, background_index_buffer |-> Empty]

\* (v >> bit) & 0x01
BitAt(v, k) == (v \div (2 ^ k)) % 2

\* PPU::set_frame_pixel
set_frame_pixel(b, x, y, rgb) ==
    IF x >= SCREEN_WIDTH \/ y >= SCREEN_HEIGHT THEN b
    ELSE IF Watched(x, y)
    THEN [b EXCEPT !.frame_buffer = Store(@, y * SCREEN_WIDTH + x, rgb, Black)]
    ELSE b

\* PPU::render_sprites, the body of `for col in 0..8`.  s is the sprite:
\* [y, tile_index, attributes, x] as read from the OAM, y already biased.
render_sprite_pixel(p, b, s, row, col, plane_low, plane_high) ==
    LET shift == IF BitAnd(s.attributes, \h40) # 0 THEN col ELSE 7 - col
        color == BitAt(plane_high, shift) * 2 + BitAt(plane_low, shift)
        palette_addr == \h3F10 + BitAnd(s.attributes, \h03) * 4 + color
        palette_value == BitAnd(ppu_read(p, palette_addr), \h3F)
        pixel_x == s.x + col
        pixel_y == s.y + row
    IN  IF color = 0 THEN b
        ELSE IF pixel_x >= SCREEN_WIDTH \/ pixel_y >= SCREEN_HEIGHT THEN b
        ELSE IF pixel_x < 8 /\ BitAnd(p.mask_register, \h04) = 0 THEN b
        ELSE IF /\ BitAnd(s.attributes, \h20) # 0
                /\ BitAnd(p.mask_register, \h08) # 0
                /\ Load(b.background_index_buffer, pixel_y * SCREEN_WIDTH + pixel_x, 0) # 0
        THEN b
        ELSE set_frame_pixel(b, pixel_x, pixel_y, SYSTEM_PALLETE[palette_value + 1])

\* PPU::render_sprites, the address of the row of the pattern
sprite_tile_addr(p, s, row, sprite_height) ==
    LET row_index == IF BitAnd(s.attributes, \h80) # 0 THEN sprite_height - 1 - row ELSE row
    IN  IF sprite_height = 16
        THEN (IF BitAnd(s.tile_index, \h01) = 0 THEN \h0000 ELSE \h1000)
               + (IF row_index >= 8 THEN U8(BitAnd(s.tile_index, \hFE) + 1) * 16 + row_index - 8
                  ELSE BitAnd(s.tile_index, \hFE) * 16 + row_index)
        ELSE (IF get_control_flag(p, PPUControlFlags.PatternSprite) THEN \h1000 ELSE \h0000)
               + s.tile_index * 16 + row_index

\* the OAM entry of a sprite
sprite_at(p, sprite_index) ==
    [y |-> Load(p.oam, sprite_index * 4, 255) + 1,
     tile_index |-> Load(p.oam, sprite_index * 4 + 1, 255),
     attributes |-> Load(p.oam, sprite_index * 4 + 2, 255),
     x |-> Load(p.oam, sprite_index * 4 + 3, 255)]

\* PPU::render_sprites, one pass of the innermost loop: the passes of
\* `for sprite_index in 0..64`, `for row in 0..sprite_height` and
\* `for col in 0..8` are numbered n = 0, 1, ... in the order they run
render_sprite_pass(p, b, n, sprite_height) ==
    Bind(sprite_at(p, n \div (sprite_height * 8)),
         LAMBDA s :
           Bind(sprite_tile_addr(p, s, (n \div 8) % sprite_height, sprite_height),
                LAMBDA tile_addr :
                  render_sprite_pixel(p, b, s, (n \div 8) % sprite_height, n % 8,
                                      ppu_read(p, tile_addr), ppu_read(p, tile_addr + 8))))

\* PPU::render_sprites, the passes first..last in order, run as two halves
RECURSIVE render_sprite_passes(_, _, _, _, _)
render_sprite_passes(p, b, first, last, sprite_height) ==
    IF first = last THEN render_sprite_pass(p, b, first, sprite_height)
    ELSE Bind(render_sprite_passes(p, b, first, (first + last) \div 2, sprite_height),
              LAMBDA half :
                IF half.frame_buffer = half.frame_buffer
                THEN render_sprite_passes(p, half, ((first + last) \div 2) + 1, last,
                                          sprite_height)
                ELSE half)

\* PPU::render_sprites, `for sprite_index in 0..64`
render_sprites_from(p, b, sprite_height) ==
    render_sprite_passes(p, b, 0, 64 * sprite_height * 8 - 1, sprite_height)

\* PPU::render_sprites
render_sprites(p, b) ==
    IF BitAnd(p.mask_register, \h10) = 0 THEN b
    ELSE render_sprites_from(p, b, IF get_control_flag(p, PPUControlFlags.SpriteSize)
                                   THEN 16 ELSE 8)

\* PPU::background_pixel_info: [rgb, color]
background_pixel_info(p, x, y) ==
    LET base_nametable == BitAnd(p.control_register, \h03)
        base_x == IF BitAnd(base_nametable, \h01) # 0 THEN 256 ELSE 0
        base_y == IF BitAnd(base_nametable, \h02) # 0 THEN 240 ELSE 0
        world_x == U16(x + p.scroll_x + base_x)
        world_y == U16(y + p.scroll_y + base_y)
        nametable_x == (world_x \div 256) % 2
        nametable_y == (world_y \div 240) % 2
        nametable_base == \h2000 + (nametable_y * 2 + nametable_x) * \h0400
        tile_x == (world_x % 256) \div 8
        tile_y == (world_y % 240) \div 8
        tile_index == ppu_read(p, nametable_base + tile_y * 32 + tile_x)
        attribute == ppu_read(p, nametable_base + \h03C0 + (tile_y \div 4) * 8 + (tile_x \div 4))
        quadrant == ((tile_y % 4) \div 2) * 2 + ((tile_x % 4) \div 2)
        palette_select == (attribute \div (4 ^ quadrant)) % 4
        pattern_table_base ==
            IF get_control_flag(p, PPUControlFlags.PatternBackground) THEN \h1000 ELSE \h0000
        tile_addr == pattern_table_base + tile_index * 16 + (world_y % 8)
        shift == 7 - (world_x % 8)
        color == BitAt(ppu_read(p, tile_addr + 8), shift) * 2
                   + BitAt(ppu_read(p, tile_addr), shift)
        palette_addr == IF color = 0 THEN \h3F00 ELSE \h3F00 + palette_select * 4 + color
    IN  [rgb |-> SYSTEM_PALLETE[BitAnd(ppu_read(p, palette_addr), \h3F) + 1],
         color |-> color]

\* PPU::clock, `if self.scanline < 240`: the background pixel of the tick
clock_pixel(p, b) ==
    IF p.scanline < 240 /\ p.cycle \in 1..256 /\ Watched(p.cycle - 1, p.scanline)
    THEN Bind(IF BitAnd(p.mask_register, \h08) # 0
                 /\ ~(p.cycle - 1 < 8 /\ BitAnd(p.mask_register, \h02) = 0)
              THEN background_pixel_info(p, p.cycle - 1, p.scanline)
              ELSE [rgb |-> SYSTEM_PALLETE[BitAnd(ppu_read(p, \h3F00), \h3F) + 1],
                    color |-> 0],
              LAMBDA px :
                set_frame_pixel(
                    [b EXCEPT !.background_index_buffer =
                                  Store(@, p.scanline * SCREEN_WIDTH + p.cycle - 1, px.color, 0)],
                    p.cycle - 1, p.scanline, px.rgb))
    ELSE b

\* PPU::clock, what it does to the buffers: the background pixel, and the
\* sprites when the tick ends scanline 261.  p is the PPU before the tick.
clock_buffers(p, b) ==
    IF U16(p.cycle + 1) >= 341 /\ U16(p.scanline + 1) > 261
    THEN render_sprites(p, clock_pixel(p, b))
    ELSE clock_pixel(p, b)

\* a reset that leaves the buffers as they are
reset_buffers_kept(b) == b

\* PPU::reset, `frame_buffer.fill(0)` and `background_index_buffer.fill(0)`
reset_buffers(b) == [b EXCEPT !.frame_buffer = Empty, !.background_index_buffer = Empty]

(***************************************************************************)
(* ui.rs: the host driver                                                  *)
(***************************************************************************)
\* RunesContext::reset
reset(m) ==
    Log([CPU_reset(m) EXCEPT !.ppu = PPU_reset(@)], [e |-> "reset"])

\* RunesApp::new: the machine the application starts with
RunesApp_new(c) == [reset(Machine_new(c)) EXCEPT !.events = <<>>]

\* RunesContext::run_frame, `for _ in 0..n`: clock() until a call leaves
\* frame_complete set, which is then cleared.  r is [m, v, ticks]: the
\* machine (its events those of the last clock() call), whether the loop has
\* returned true, and the number of calls made.  The n iterations are run
\* as two halves.
RECURSIVE run_frame_for(_, _)
run_frame_for(r, n) ==
    IF n = 1
    THEN Bind(clock([r.m EXCEPT !.events = <<>>]),
              LAMBDA m1 :
                IF m1.ppu.frame_complete
                THEN [m |-> [m1 EXCEPT !.ppu.frame_complete = FALSE], v |-> TRUE,
                      ticks |-> r.ticks + 1]
                ELSE [m |-> m1, v |-> FALSE, ticks |-> r.ticks + 1])
    ELSE Bind(run_frame_for(r, n \div 2),
              LAMBDA half : IF half.v THEN half
                            ELSE run_frame_for(half, n - (n \div 2)))

\* RunesContext::run_frame (FRAME_CYCLES = 341 * 262)
run_frame(m) == run_frame_for([m |-> m, v |-> FALSE, ticks |-> 0], 341 * 262)

\* RunesContext::run_for_budget, `for _ in 0..cycles_to_run`: clock(), and a
\* frame_complete found set is cleared and remembered.  r is [m, v]: the
\* machine (its events those of the last clock() call) and the value to
\* return.  The n iterations are run as two halves.
RECURSIVE run_for_budget_for(_, _)
run_for_budget_for(r, n) ==
    IF n = 1
    THEN Bind(clock([r.m EXCEPT !.events = <<>>]),
              LAMBDA m1 :
                IF m1.ppu.frame_complete
                THEN [m |-> [m1 EXCEPT !.ppu.frame_complete = FALSE], v |-> TRUE]
                ELSE [m |-> m1, v |-> r.v])
    ELSE Bind(run_for_budget_for(r, n \div 2),
              LAMBDA half : IF half.v \in BOOLEAN
                            THEN run_for_budget_for(half, n - (n \div 2))
                            ELSE half)

\* RunesContext::run_for_budget for a budget that comes to cycles_to_run
\* PPU cycles
run_for_budget(m, cycles_to_run) ==
    IF cycles_to_run = 0 THEN [m |-> m, v |-> FALSE]
    ELSE run_for_budget_for([m |-> m, v |-> FALSE], cycles_to_run)

\* RunesContext::step_instruction: clock() until CPU::complete().  The events
\* are those of all the clock() calls made.
RECURSIVE step_instruction(_)
step_instruction(m) ==
    Bind(clock(m),
         LAMBDA m1 : IF m1.cpu.cycles = 0 THEN m1 ELSE step_instruction(m1))

(***************************************************************************)
(* Cartridge images.  A program is a map from CPU addresses 0x8000..0xFFFF *)
(* to bytes; the image is the 32 KiB PRG ROM holding it (two banks), with  *)
(* CHR RAM and horizontal mirroring, as Cartridge::new builds it from an   *)
(* iNES file with prg_banks = 2, chr_banks = 0 and flags6 bit 0 clear.     *)
(***************************************************************************)
Place(origin, code) ==
    [a \in origin..(origin + Len(code) - 1) |-> code[a - origin + 1]]

Lo(a) == a % 256
Hi(a) == a \div 256

\* the three vectors at 0xFFFA (nmi), 0xFFFC (reset), 0xFFFE (irq/brk)
Vectors(nmi_to, reset_to, irq_to) ==
    Place(\hFFFA, <<Lo(nmi_to), Hi(nmi_to), Lo(reset_to), Hi(reset_to),
                    Lo(irq_to), Hi(irq_to)>>)

Cartridge(program) ==
    [prg_rom |-> [o \in {a - \h8000 : a \in {b \in DOMAIN program : program[b] # 0}}
                    |-> program[o + \h8000]],
     prg_len |-> 2 * 16384, chr_rom |-> Empty, chr_is_ram |-> TRUE,
     mirror |-> "Horizontal"]

\* ---- indexed loads, stores and read-modify-writes ----------------------
\* LDX #idx / LDY #idx, then the indexed instruction on `base`, then JMP back
IndexedOps ==
    {<<\hBD, "X">>, <<\hB9, "Y">>, <<\hBE, "Y">>, <<\hBC, "X">>, <<\h7D, "X">>,
     <<\hF9, "Y">>, <<\h3D, "X">>, <<\h59, "Y">>, <<\h1D, "X">>, <<\hDD, "X">>,
     <<\h1C, "X">>, <<\hFC, "X">>, <<\h9D, "X">>, <<\h99, "Y">>, <<\hFE, "X">>,
     <<\h1E, "X">>, <<\h5E, "X">>, <<\hDE, "X">>}

IndexedProgram(op, idx, base) ==
    Place(\h8000, <<IF op[2] = "X" THEN \hA2 ELSE \hA0, idx,
                    op[1], Lo(base), Hi(base), \h4C, \h00, \h80>>)
      @@ Vectors(\h8000, \h8000, \h8000)

IndexedPrograms ==
    {IndexedProgram(op, idx, \h02F0) : op \in IndexedOps, idx \in {\h0F, \h10}}

\* LDA #lo ; STA $10 ; LDY #y ; op ($10),Y ; JMP back: the pointer is 0x00lo
IndirectProgram(opcode, lo, y) ==
    Place(\h8000, <<\hA9, lo, \h85, \h10, \hA0, y, opcode, \h10, \h4C, \h00, \h80>>)
      @@ Vectors(\h8000, \h8000, \h8000)

IndirectPrograms ==
    {IndirectProgram(opcode, \hFF, y) : opcode \in {\hB1, \h91, \h71}, y \in {0, 1}}

\* ---- branches ----------------------------------------------------------
\* the instructions that put the tested flag in each state
FlagSetup ==
    [clear |-> <<\hEA>>, C |-> <<\h38>>, Z |-> <<\hA9, \h00>>,
     N |-> <<\hA9, \h80>>, V |-> <<\hA9, \h7F, \h69, \h7F>>]

BranchOps ==
    {<<\hB0, "C">>, <<\h90, "C">>, <<\hF0, "Z">>, <<\hD0, "Z">>,
     <<\h30, "N">>, <<\h10, "N">>, <<\h70, "V">>, <<\h50, "V">>}

\* where the branch's operand ends, and the offset byte
BranchShapes == {<<\h8010, \h05>>, <<\h80FE, \h04>>, <<\h8102, \hF8>>, <<\h8030, \hFA>>}

BranchProgram(op, setup, shape) ==
    LET code == FlagSetup[setup] \o <<op[1], shape[2]>>
        origin == shape[1] - Len(code)
    IN  Place(origin, code) @@ Vectors(origin, origin, origin)

BranchPrograms ==
    {BranchProgram(op, setup, shape) :
        op \in BranchOps, setup \in {"clear"}, shape \in BranchShapes}
    \cup {BranchProgram(op, op[2], shape) : op \in BranchOps, shape \in BranchShapes}

Programs == IndexedPrograms \cup IndirectPrograms \cup BranchPrograms

\* ---- programs that run up to the vertical blank ------------------------
\* the NMI handler is a lone RTI at 0x9000
\* LDA #ctrl ; STA $2000 ; NOP ; loop: LDA $0200,X ; NOP ; JMP loop
NmiLoop(ctrl) ==
    Place(\h8000, <<\hA9, ctrl, \h8D, \h00, \h20, \hEA,
                    \hBD, \h00, \h02, \hEA, \h4C, \h06, \h80>>)
      @@ Place(\h9000, <<\h40>>) @@ Vectors(\h9000, \h8000, \h8000)

\* LDA #ctrl ; STA $2000 ; NOP ; loop: LDX #1 ; LDA $00FF,X ; BEQ loop
NmiBusy(ctrl) ==
    Place(\h8000, <<\hA9, ctrl, \h8D, \h00, \h20, \hEA,
                    \hA2, \h01, \hBD, \hFF, \h00, \hF0, \hF9>>)
      @@ Place(\h9000, <<\h40>>) @@ Vectors(\h9000, \h8000, \h8000)

\* loop: JMP loop
Spin == Place(\h8000, <<\h4C, \h00, \h80>>) @@ Vectors(\h8000, \h8000, \h8000)

FramePrograms == {NmiLoop(\h80), NmiBusy(\h80), NmiLoop(\h00), Spin}

\* LDA #ctrl ; STA $2000 ; loop: LDA $2002 ; BPL loop ; JMP loop
PollStatus(ctrl) ==
    Place(\h8000, <<\hA9, ctrl, \h8D, \h00, \h20,
                    \hAD, \h02, \h20, \h10, \hFB, \h4C, \h05, \h80>>)
      @@ Place(\h9000, <<\h40>>) @@ Vectors(\h9000, \h8000, \h8000)

(***************************************************************************)
(* Observations: counters kept beside the machine, read by the properties  *)
(***************************************************************************)
Count(evs, kind) == Cardinality({i \in DOMAIN evs : evs[i].e = kind})
Has(evs, kind) == \E i \in DOMAIN evs : evs[i].e = kind
Ev(evs, kind) == evs[CHOOSE i \in DOMAIN evs : evs[i].e = kind]

\* a tick count of any size, as [hi, lo] with lo < 65536
TickInc(n) == IF n.lo < 65535 THEN [n EXCEPT !.lo = @ + 1] ELSE Wide(n.hi + 1, 0)

\* n >= k for a tick count [hi, lo]
TickGe(n, k) == n.hi > k \div 65536 \/ (n.hi = k \div 65536 /\ n.lo >= k % 65536)

\* no instruction observed yet
NoInstr ==
    [open |-> FALSE, fetch |-> <<>>, elapsed |-> 0, interrupted |-> FALSE, cut |-> 0]

\* the instruction in progress after a call that performed the steps evs:
\* its fetch, the CPU cycles elapsed since (the fetching one included),
\* whether an NMI or a reset came in between, and the cycles elapsed then
InstrAfter(i, evs) ==
    LET stopped == Has(evs, "nmi") \/ Has(evs, "reset")
    IN  IF Has(evs, "fetch")
        THEN [open |-> TRUE, fetch |-> Ev(evs, "fetch"), elapsed |-> 1,
              interrupted |-> stopped, cut |-> IF stopped THEN 1 ELSE 0]
        ELSE [i EXCEPT !.elapsed = @ + Count(evs, "cpu"),
                       !.interrupted = @ \/ stopped,
                       !.cut = IF stopped THEN i.elapsed + Count(evs, "cpu") ELSE @]

M == [cpu |-> cpu, bus |-> bus, ppu |-> ppu, cart |-> cart, events |-> <<>>]

Becomes(r) ==
    /\ cpu' = r.cpu
    /\ bus' = r.bus
    /\ ppu' = r.ppu
    /\ events' = r.events
    /\ tally' = [ppu |-> IF Has(r.events, "ppu") THEN TickInc(tally.ppu) ELSE tally.ppu,
                 cpu |-> tally.cpu + Count(r.events, "cpu")]
    /\ instr' = InstrAfter(instr, r.events)
    /\ closed' = IF Has(r.events, "fetch") THEN instr ELSE NoInstr
    /\ UNCHANGED cart

(***************************************************************************)
(* The emulator driven tick by tick                                        *)
(***************************************************************************)
MaxTicks == 66
MaxResets == 1
MaxFrameTicks == 89400

\* the 0x2005/0x2006 writes since the last status read, reset or construction
\* (each with the PPU it found), the latch that status read found, the last
\* access, and the number of accesses
NoAccess == [op |-> "none", reg |-> 0, data |-> 0, pre |-> 0]

NoHist == [writes |-> <<>>, since |-> "new", found |-> TRUE, n |-> 0, last |-> NoAccess]

Start(c) ==
    LET m == RunesApp_new(c)
    IN  /\ cpu = m.cpu
        /\ bus = m.bus
        /\ ppu = m.ppu
        /\ cart = m.cart
        /\ events = <<>>
        /\ nticks = Wide(0, 0)
        /\ nresets = 0
        /\ tally = [ppu |-> Wide(0, 0), cpu |-> 0]
        /\ instr = NoInstr
        /\ closed = NoInstr
        /\ hist = NoHist
        /\ fault = "none"

Init == \E program \in Programs : Start(Cartridge(program))

\* one call of CPU::clock
Tick ==
    /\ fault = "none"
    /\ Becomes(clock(M))
    /\ nticks' = TickInc(nticks)
    /\ UNCHANGED <<nresets, hist, fault>>

Clock ==
    /\ nticks.hi = 0
    /\ nticks.lo < MaxTicks
    /\ Tick

\* the host's reset (RunesContext::reset)
Reset ==
    /\ nresets < MaxResets
    /\ Becomes(reset(M))
    /\ nresets' = nresets + 1
    /\ hist' = [NoHist EXCEPT !.since = "reset", !.n = hist.n,
                              !.last = [NoAccess EXCEPT !.op = "reset"]]
    /\ UNCHANGED <<nticks, fault>>

Next == Clock

Spec == Init /\ [][Next]_vars

\* ---- a whole frame up to and past the vertical blank -------------------
InitFrame == \E program \in FramePrograms : Start(Cartridge(program))

ClockFrame ==
    /\ ~TickGe(nticks, MaxFrameTicks)
    /\ Tick

NextFrame == ClockFrame

SpecFrame == InitFrame /\ [][NextFrame]_vars

(***************************************************************************)
(* The bus driven access by access: Bus::mem_write and Bus::mem_read on    *)
(* the PPU's registers and their mirrors, as the CPU's instructions and    *)
(* the tests call them, with a host reset at any moment                    *)
(***************************************************************************)
MaxBusOps == 4

WriteAddrs == {\h2000, \h2005, \h2006, \h2007, \h3FFE}
WriteData == {\h04, \h3F, \hFF}
ReadAddrs == {\h2002, \h2007, \h3FFA}

\* the PPU register an address of 0x2000..0x3FFF selects
Reg(addr) == addr % 8

HistWrite(addr, data) ==
    [hist EXCEPT !.writes = IF Reg(addr) \in {5, 6}
                            THEN Append(@, [reg |-> Reg(addr), data |-> data, pre |-> ppu])
                            ELSE @,
                 !.n = @ + 1,
                 !.last = [op |-> "write", reg |-> Reg(addr), data |-> data,
                           pre |-> ppu.address_register]]

HistRead(addr, value) ==
    [hist EXCEPT !.writes = IF Reg(addr) = 2 THEN <<>> ELSE @,
                 !.since = IF Reg(addr) = 2 THEN "status" ELSE @,
                 !.found = IF Reg(addr) = 2 THEN ppu.address_latch ELSE @,
                 !.n = @ + 1,
                 !.last = [op |-> "read", reg |-> Reg(addr), data |-> value,
                           pre |-> ppu.address_register]]

MemWrite ==
    \E addr \in WriteAddrs, data \in WriteData :
        /\ hist.n < MaxBusOps
        /\ Becomes(mem_write(M, addr, data))
        /\ hist' = HistWrite(addr, data)
        /\ UNCHANGED <<nticks, nresets, fault>>

MemRead ==
    \E addr \in ReadAddrs :
        /\ hist.n < MaxBusOps
        /\ Becomes(mem_read(M, addr).m)
        /\ hist' = HistRead(addr, mem_read(M, addr).v)
        /\ UNCHANGED <<nticks, nresets, fault>>

InitRegs == Start(Cartridge(Spin))

NextRegs == MemWrite \/ MemRead \/ Reset

SpecRegs == InitRegs /\ [][NextRegs]_vars

(***************************************************************************)
(* The emulator around the wrap of system_clock_counter.  The program is   *)
(* Spin, whose state after n ticks has a closed form: the PPU's position   *)
(* is n modulo the frame, and the CPU fetches its JMP every third cycle    *)
(* from cycle 8 on.  SpinClosedForm compares the closed form with the      *)
(* run from construction; InitWrap starts from it WrapLead ticks before    *)
(* the counter's maximum.                                                  *)
(***************************************************************************)
WrapLead == 60
WrapTail == 60

FrameTicks == 341 * 262
VBlankSetAt == 241 * 341 + 1
VBlankClearAt == 261 * 341 + 1

\* n modulo k for a tick count [hi, lo], k < 2^23
TickMod(n, k) == (((n.hi * 256) % k) * 256 + n.lo) % k

\* ceil(n / 3) for a tick count [hi, lo]: 65536 = 3 * 21845 + 1
CeilDiv3(n) == 21845 * n.hi + ((n.hi + n.lo + 2) \div 3)

\* the machine Spin is in after n >= 27 ticks from construction, n < 2^32
SpinAt(n) ==
    LET pos == TickMod(n, FrameTicks)
        c == CeilDiv3(n)
        m == RunesApp_new(Cartridge(Spin))
    IN  [m EXCEPT !.cpu.program_counter = \h8000, !.cpu.addr_abs = \h8000,
                  !.cpu.opcode = \h4C, !.cpu.cycles = 2 - (c % 3),
                  !.cpu.system_clock_counter = n,
                  !.ppu.scanline = pos \div 341, !.ppu.cycle = pos % 341,
                  !.ppu.status_register =
                      IF TickGe(n, VBlankSetAt + 1)
                         /\ pos > VBlankSetAt /\ pos <= VBlankClearAt
                      THEN PPUStatusFlags.VerticalBlank ELSE 0,
                  !.ppu.frame_complete = TickGe(n, FrameTicks)]

\* the closed form agrees with the run from construction
SpinClosedForm ==
    (cart = Cartridge(Spin) /\ TickGe(nticks, 27))
        => M = [SpinAt(nticks) EXCEPT !.events = <<>>]

InitWrap ==
    LET n == Wide(65535, 65536 - WrapLead)
        m == SpinAt(n)
    IN  /\ cpu = m.cpu
        /\ bus = m.bus
        /\ ppu = m.ppu
        /\ cart = m.cart
        /\ events = <<>>
        /\ nticks = n
        /\ nresets = 0
        /\ tally = [ppu |-> n, cpu |-> CeilDiv3(n)]
        /\ instr = NoInstr
        /\ closed = NoInstr
        /\ hist = NoHist
        /\ fault = "none"

\* a tick that the build carries out: every tick in the release build, where
\* the counter wraps; every tick but the one at the maximum in the debug build
ClockWrap ==
    /\ nticks.hi = 65535 \/ (nticks.hi = 65536 /\ nticks.lo < WrapTail)
    /\ Tick

\* the tick at the counter's maximum in the debug build: the increment
\* `self.system_clock_counter += 1` panics with an arithmetic overflow
ClockOverflow ==
    /\ fault = "none"
    /\ cpu.system_clock_counter = Wide(65535, 65535)
    /\ fault' = "overflow"
    /\ UNCHANGED <<cpu, bus, ppu, cart, events, nticks, nresets, tally, instr,
                   closed, hist>>

NextWrap == ClockWrap \/ ClockOverflow

SpecWrap == InitWrap /\ [][NextWrap]_vars

(***************************************************************************)
(* The PPU's data port driven access by access: the address register set   *)
(* with two writes to 0x2006 (high byte, then low byte), bytes written and *)
(* read through 0x2007, the increment chosen through 0x2000.  `hist` holds *)
(* the accesses made, each with the address register, the read buffer and  *)
(* the increment it found, and the byte last written to each palette entry *)
(***************************************************************************)
\* f with k mapped to v
Put(f, k, v) == [x \in DOMAIN f \cup {k} |-> IF x = k THEN v ELSE f[x]]

\* the palette entry (0..31) a palette address 0x3F00..0x3FFF names: the
\* palette repeats every 32 bytes and entries 0x10, 0x14, 0x18, 0x1C are
\* entries 0x00, 0x04, 0x08, 0x0C
PaletteClass(a) ==
    LET i == a % 32
    IN  IF i % 4 = 0 THEN i % 16 ELSE i

InPalette(a) == a >= \h3F00 /\ a <= \h3FFF

NoPort == [ops |-> <<>>, shadow |-> Empty]

PortOp(kind, data) ==
    [op |-> kind, addr |-> ppu.address_register, buf |-> ppu.data_buffer,
     data |-> data, step |-> IF Test(ppu.control_register, 4) THEN 32 ELSE 1]

\* the state RunesApp::new leaves for cartridge c, with the observation h
StartObserved(c, h) ==
    LET m == RunesApp_new(c)
    IN  /\ cpu = m.cpu
        /\ bus = m.bus
        /\ ppu = m.ppu
        /\ cart = m.cart
        /\ events = <<>>
        /\ nticks = Wide(0, 0)
        /\ nresets = 0
        /\ tally = [ppu |-> Wide(0, 0), cpu |-> 0]
        /\ instr = NoInstr
        /\ closed = NoInstr
        /\ hist = h
        /\ fault = "none"

\* mem_write(0x2006, high byte of a); mem_write(0x2006, low byte of a)
PortSetAddress(a) ==
    /\ Becomes(mem_write(mem_write(M, \h2006, a \div 256), \h2006, a % 256))
    /\ hist' = [hist EXCEPT !.ops = Append(@, PortOp("addr", a))]
    /\ UNCHANGED <<nticks, nresets, fault>>

\* mem_write(0x2007, v)
PortWrite(v) ==
    /\ Becomes(mem_write(M, \h2007, v))
    /\ hist' = [hist EXCEPT
                  !.ops = Append(@, PortOp("write", v)),
                  !.shadow = IF InPalette(ppu.address_register)
                             THEN Put(@, PaletteClass(ppu.address_register), v)
                             ELSE @]
    /\ UNCHANGED <<nticks, nresets, fault>>

\* mem_read(0x2007)
PortRead ==
    /\ Becomes(mem_read(M, \h2007).m)
    /\ hist' = [hist EXCEPT !.ops = Append(@, PortOp("read", mem_read(M, \h2007).v))]
    /\ UNCHANGED <<nticks, nresets, fault>>

\* ---- the palette -------------------------------------------------------
MaxPaletteOps == 4

PaletteAddrs == {\h3F00, \h3F10, \h3F04, \h3F34, \h3FFF}
PaletteData == {\h00, \h12, \h7F}

InitPalette == StartObserved(Cartridge(Spin), NoPort)

PaletteSetAddress ==
    \E a \in PaletteAddrs : Len(hist.ops) < MaxPaletteOps /\ PortSetAddress(a)

PaletteWrite ==
    \E v \in PaletteData : Len(hist.ops) < MaxPaletteOps /\ PortWrite(v)

PaletteRead == Len(hist.ops) < MaxPaletteOps /\ PortRead

NextPalette == PaletteSetAddress \/ PaletteWrite \/ PaletteRead

SpecPalette == InitPalette /\ [][NextPalette]_vars

\* ---- the nametables and the read buffer --------------------------------
MaxVramOps == 5

Mirrorings == {"Horizontal", "Vertical", "FourScreen"}
VramAddrs == {\h2F00, \h3400, \h3EFF, \h3F00}
VramData == {\h12, \hB7}
VramControls == {\h00, \h04}

\* the cartridge of Spin with the mirroring tag t (flags6 bits 0 and 3)
Mirrored(t) == [Cartridge(Spin) EXCEPT !.mirror = t]

\* construction, then the program's write of the control register
InitVram ==
    \E t \in Mirrorings, c \in VramControls :
        LET m == mem_write(RunesApp_new(Mirrored(t)), \h2000, c)
        IN  /\ cpu = m.cpu
            /\ bus = m.bus
            /\ ppu = m.ppu
            /\ cart = m.cart
            /\ events = <<>>
            /\ nticks = Wide(0, 0)
            /\ nresets = 0
            /\ tally = [ppu |-> Wide(0, 0), cpu |-> 0]
            /\ instr = NoInstr
            /\ closed = NoInstr
            /\ hist = NoPort
            /\ fault = "none"

VramSetAddress ==
    \E a \in VramAddrs : Len(hist.ops) < MaxVramOps /\ PortSetAddress(a)

VramWrite ==
    \E v \in VramData : Len(hist.ops) < MaxVramOps /\ PortWrite(v)

VramRead == Len(hist.ops) < MaxVramOps /\ PortRead

NextVram == VramSetAddress \/ VramWrite \/ VramRead

SpecVram == InitVram /\ [][NextVram]_vars

(***************************************************************************)
(* The bus driven write by write on CPU RAM and its mirrors, with the OAM  *)
(* address set through 0x2003 and an OAM DMA started through 0x4014.       *)
(* `hist` holds the number of writes and of DMAs made, the byte last       *)
(* written to each RAM cell (0..0x7FF), and the last write with the OAM    *)
(* and the OAM address it found                                            *)
(***************************************************************************)
MaxRamOps == 3
MaxDmas == 1

RamAddrs == {\h0001, \h0801, \h1FFF, \h0F00}
RamData == {\hAA, \h55}
OamAddrs == {\h05, \hFE}
DmaPages == {\h00, \h0F, \h20, \hFF}

NoRam == [n |-> 0, dmas |-> 0, shadow |-> Empty,
          last |-> [op |-> "none", addr |-> 0, data |-> 0, oam |-> Empty, oam_addr |-> 0]]

\* the write of data at addr as the observation records it
RamOp(addr, data) ==
    [hist EXCEPT !.n = @ + 1,
                 !.last = [op |-> "write", addr |-> addr, data |-> data,
                           oam |-> ppu.oam, oam_addr |-> ppu.oam_addr]]

InitRam == StartObserved(Cartridge(Spin), NoRam)

\* mem_write(addr, data) on CPU RAM
RamWrite ==
    \E addr \in RamAddrs, data \in RamData :
        /\ hist.n < MaxRamOps
        /\ Becomes(mem_write(M, addr, data))
        /\ hist' = [RamOp(addr, data) EXCEPT !.shadow = Put(@, addr % 2048, data)]
        /\ UNCHANGED <<nticks, nresets, fault>>

\* mem_write(0x2003, data)
OamAddrWrite ==
    \E data \in OamAddrs :
        /\ hist.n < MaxRamOps
        /\ Becomes(mem_write(M, \h2003, data))
        /\ hist' = RamOp(\h2003, data)
        /\ UNCHANGED <<nticks, nresets, fault>>

\* mem_write(0x4014, page)
DmaWrite ==
    \E page \in DmaPages :
        /\ hist.n < MaxRamOps
        /\ hist.dmas < MaxDmas
        /\ Becomes(mem_write(M, \h4014, page))
        /\ hist' = [RamOp(\h4014, page) EXCEPT !.dmas = @ + 1]
        /\ UNCHANGED <<nticks, nresets, fault>>

NextRam == RamWrite \/ OamAddrWrite \/ DmaWrite

SpecRam == InitRam /\ [][NextRam]_vars

(***************************************************************************)
(* The bus driven access by access at mirrors of the PPU's registers, one  *)
(* address for each of the eight registers.  `hist` holds the number of    *)
(* accesses and the last one with the machine it found                     *)
(***************************************************************************)
MaxMirrorOps == 3

MirrorAddrs == {\h2008, \h3FF9, \h200A, \h2ABB, \h3FFC, \h200D, \h3FFE, \h2AAF}
MirrorData == {\h3F, \h84}

NoMirror == [n |-> 0, last |-> [op |-> "none", addr |-> 0, data |-> 0, before |-> <<>>]]

InitMirror == StartObserved(Cartridge(Spin), NoMirror)

\* mem_write(addr, data) at a mirror
MirrorWrite ==
    \E addr \in MirrorAddrs, data \in MirrorData :
        /\ hist.n < MaxMirrorOps
        /\ Becomes(mem_write(M, addr, data))
        /\ hist' = [n |-> hist.n + 1,
                    last |-> [op |-> "write", addr |-> addr, data |-> data, before |-> M]]
        /\ UNCHANGED <<nticks, nresets, fault>>

\* mem_read(addr) at a mirror
MirrorRead ==
    \E addr \in MirrorAddrs :
        /\ hist.n < MaxMirrorOps
        /\ Becomes(mem_read(M, addr).m)
        /\ hist' = [n |-> hist.n + 1,
                    last |-> [op |-> "read", addr |-> addr,
                              data |-> mem_read(M, addr).v, before |-> M]]
        /\ UNCHANGED <<nticks, nresets, fault>>

NextMirror == MirrorWrite \/ MirrorRead

SpecMirror == InitMirror /\ [][NextMirror]_vars

(***************************************************************************)
(* The controllers: the host's set_controller_state, the strobe written    *)
(* through 0x4016, the serial reads of 0x4016 and 0x4017.  `hist` holds    *)
(* the last three strobe writes, the live value of controller 0 when the   *)
(* strobe was last written, the bits read from 0x4016 since it was written *)
(* low, high, low (the first MaxPadReads of them), the last access, and    *)
(* the number of reads of                                                  *)
(* 0x4016 made in a row with the strobe high                               *)
(***************************************************************************)
MaxPadReads == 8

\* the (index, state) pairs the host sets; there is no controller 2
PadSettings == {<<0, \hA5>>, <<0, \h5A>>, <<1, \h5A>>, <<2, \hA5>>}

NoPad == [strobes |-> <<>>, latched |-> 0, bits |-> <<>>, run |-> 0,
          last |-> [op |-> "none", addr |-> 0, data |-> 0, before |-> <<>>]]

InitPad == StartObserved(Cartridge(Spin), NoPad)

\* the last k elements of a sequence
LastOf(q, k) == IF Len(q) <= k THEN q ELSE SubSeq(q, Len(q) - k + 1, Len(q))

\* the host's set_controller_state(index, state)
PadSet ==
    \E setting \in PadSettings :
        /\ Becomes(set_controller_state(M, setting[1], setting[2]))
        /\ hist' = [hist EXCEPT !.run = 0,
                                !.last = [op |-> "set", addr |-> setting[1],
                                          data |-> setting[2], before |-> bus]]
        /\ UNCHANGED <<nticks, nresets, fault>>

\* mem_write(0x4016, data)
PadStrobe ==
    \E data \in {0, 1} :
        /\ Becomes(mem_write(M, \h4016, data))
        /\ hist' = [hist EXCEPT !.strobes = LastOf(Append(@, data), 3),
                                !.latched = bus.controller[0],
                                !.bits = <<>>,
                                !.run = 0,
                                !.last = [op |-> "strobe", addr |-> \h4016, data |-> data,
                                          before |-> bus]]
        /\ UNCHANGED <<nticks, nresets, fault>>

\* mem_read(0x4016), mem_read(0x4017)
PadRead ==
    \E addr \in {\h4016, \h4017} :
        /\ Becomes(mem_read(M, addr).m)
        /\ hist' = [hist EXCEPT
                      !.bits = IF /\ addr = \h4016
                                  /\ hist.strobes = <<0, 1, 0>>
                                  /\ Len(@) < MaxPadReads
                               THEN Append(@, mem_read(M, addr).v) ELSE @,
                      !.run = IF addr = \h4016 /\ bus.controller_strobe
                              THEN (IF @ < MaxPadReads THEN @ + 1 ELSE @) ELSE 0,
                      !.last = [op |-> "read", addr |-> addr,
                                data |-> mem_read(M, addr).v, before |-> bus]]
        /\ UNCHANGED <<nticks, nresets, fault>>

NextPad == PadSet \/ PadStrobe \/ PadRead

SpecPad == InitPad /\ [][NextPad]_vars

(***************************************************************************)
(* The emulator driven tick by tick through a program that stores to       *)
(* 0x4014                                                                  *)
(***************************************************************************)
MaxDmaTicks == 60

\* the (load immediate, store absolute) opcode pairs: A, X, Y
DmaStoreOps == {<<\hA9, \h8D>>, <<\hA2, \h8E>>, <<\hA0, \h8C>>}

\* LDr #page ; STr $4014 ; loop: JMP loop
DmaStore(op, page) ==
    Place(\h8000, <<op[1], page, op[2], \h14, \h40, \h4C, \h05, \h80>>)
      @@ Vectors(\h8000, \h8000, \h8000)

DmaStores == {DmaStore(op, page) : op \in DmaStoreOps, page \in {\h00, \h02}}

InitDma == \E program \in DmaStores : Start(Cartridge(program))

ClockDma ==
    /\ nticks.hi = 0
    /\ nticks.lo < MaxDmaTicks
    /\ Tick

NextDma == ClockDma

SpecDma == InitDma /\ [][NextDma]_vars

(***************************************************************************)
(* The emulator driven tick by tick through a program that stores a target *)
(* behind a pointer and jumps through it                                   *)
(***************************************************************************)
MaxJmpTicks == 84

\* where JMP (ptr) takes the target's high byte from, and where it would
\* without the page wrap (or, for the other pointers, with it)
HighByteAt(ptr) == IF Lo(ptr) = \hFF THEN BitAnd(ptr, \hFF00) ELSE (ptr + 1) % 65536
NotHighByteAt(ptr) == IF Lo(ptr) = \hFF THEN (ptr + 1) % 65536 ELSE BitAnd(ptr, \hFF00)

\* LDA #decoy ; STA elsewhere ; LDA #lo ; STA ptr ; LDA #hi ; STA high ; JMP (ptr)
JmpIndirect(ptr, lo, hi, decoy) ==
    Place(\h8000, <<\hA9, decoy, \h8D, Lo(NotHighByteAt(ptr)), Hi(NotHighByteAt(ptr)),
                    \hA9, lo, \h8D, Lo(ptr), Hi(ptr),
                    \hA9, hi, \h8D, Lo(HighByteAt(ptr)), Hi(HighByteAt(ptr)),
                    \h6C, Lo(ptr), Hi(ptr)>>)
      @@ Vectors(\h8000, \h8000, \h8000)

\* the address of the JMP in these programs
JmpAt == \h800F

JmpPointers == {\h02FF, \h0280, \h07FF, \h1AFF, \h20FF}
JmpTargets == {<<\h00, \h30>>, <<\h34, \h12>>}

\* the pointer 0x80FF lies in ROM, its low byte placed there, its high byte
\* the program's first opcode
JmpPrograms ==
    {JmpIndirect(ptr, t[1], t[2], \h55) : ptr \in JmpPointers, t \in JmpTargets}
      \cup {Place(\h80FF, <<\h34>>) @@ JmpIndirect(\h80FF, \h34, \hA9, \h55)}

InitJmp == \E program \in JmpPrograms : Start(Cartridge(program))

ClockJmp ==
    /\ nticks.hi = 0
    /\ nticks.lo < MaxJmpTicks
    /\ Tick

NextJmp == ClockJmp

SpecJmp == InitJmp /\ [][NextJmp]_vars

(***************************************************************************)
(* The emulator driven tick by tick through LDA #a ; ADC #m from reset     *)
(***************************************************************************)
MaxAdcTicks == 40

AdcBytes == {\h00, \h01, \h3F, \h40, \h7F, \h80, \h81, \hC0, \hFE, \hFF}

\* LDA #a ; ADC #m ; loop: JMP loop
LoadAndAdd(a, m) ==
    Place(\h8000, <<\hA9, a, \h69, m, \h4C, \h04, \h80>>)
      @@ Vectors(\h8000, \h8000, \h8000)

AdcPrograms == {LoadAndAdd(a, m) : a \in AdcBytes, m \in AdcBytes}

InitAdc == \E program \in AdcPrograms : Start(Cartridge(program))

ClockAdc ==
    /\ nticks.hi = 0
    /\ nticks.lo < MaxAdcTicks
    /\ Tick

NextAdc == ClockAdc

SpecAdc == InitAdc /\ [][NextAdc]_vars

(***************************************************************************)
(* The emulator driven by the host's calls: run_for_budget when the host   *)
(* starts running, then step_instruction and run_frame.  `hist` holds the  *)
(* number of calls, the number of run_frame calls, and the last call: the  *)
(* CPU's cycle count, the PPU's position in the frame and its              *)
(* frame_complete before the call, the clock() calls run_frame made and    *)
(* the value returned.                                                     *)
(***************************************************************************)
MaxHostCalls == 6
MaxFrames == 1

\* the number of ticks left in the frame after the budget
HostLeads == {8, 30}

HostPrograms == {Spin, NmiLoop(\h80)}

NoCall == [op |-> "none", cycles |-> 0, pos |-> 0, stale |-> FALSE,
           ticks |-> 0, ret |-> FALSE]

NoHost == [n |-> 0, frames |-> 0, last |-> NoCall]

\* the call about to be made, as found
Call(op) ==
    [NoCall EXCEPT !.op = op, !.cycles = cpu.cycles,
                   !.pos = ppu.scanline * 341 + ppu.cycle,
                   !.stale = ppu.frame_complete]

InitHost == \E program \in HostPrograms : StartObserved(Cartridge(program), NoHost)

\* RunesApp::update while running: run_for_budget(delta)
RunForBudget ==
    \E lead \in HostLeads :
        /\ hist.n = 0
        /\ \E r \in {run_for_budget(M, FrameTicks - lead)} :
               /\ Becomes(r.m)
               /\ hist' = [hist EXCEPT !.n = @ + 1,
                                       !.last = [Call("budget") EXCEPT
                                                   !.ticks = FrameTicks - lead,
                                                   !.ret = r.v]]
        /\ UNCHANGED <<nticks, nresets, fault>>

\* RunesApp::update, key N: step_instruction()
StepInstruction ==
    /\ hist.n < MaxHostCalls
    /\ Becomes(step_instruction(M))
    /\ hist' = [hist EXCEPT !.n = @ + 1, !.last = Call("step")]
    /\ UNCHANGED <<nticks, nresets, fault>>

\* RunesApp::update, key F: run_frame()
RunFrame ==
    /\ hist.n < MaxHostCalls
    /\ hist.frames < MaxFrames
    /\ \E r \in {run_frame(M)} :
           /\ Becomes(r.m)
           /\ hist' = [hist EXCEPT !.n = @ + 1, !.frames = @ + 1,
                                   !.last = [Call("frame") EXCEPT
                                               !.ticks = r.ticks, !.ret = r.v]]
    /\ UNCHANGED <<nticks, nresets, fault>>

NextHost == RunForBudget \/ StepInstruction \/ RunFrame

SpecHost == InitHost /\ [][NextHost]_vars

(***************************************************************************)
(* The bus driven access by access over the whole address space, with a    *)
(* cartridge of one PRG bank or of two.  `hist` holds the number of        *)
(* accesses and the last one with the machine it found.                    *)
(***************************************************************************)
MaxBusCalls == 2

\* RAM, the PPU data port and the strobe; addresses nothing is mapped at;
\* the DMA port and the second controller port; PRG ROM
BusAddrs ==
    {\h07FF, \h2007, \h4016,
     \h4000, \h4013, \h4015, \h4018, \h5ABC, \h7FFF,
     \h4014, \h4017,
     \h8000, \hBFFF, \hC000, \hFFFC, \hFFFF}
BusData == {\h01, \hFF}

\* loop: JMP loop, with a last byte, in a single bank: the vectors are read
\* at 0xFFFA..0xFFFF from the bank's last six bytes
SpinOneBank ==
    Place(\h8000, <<\h4C, \h00, \h80>>)
      @@ Place(\hBFFA, <<\h00, \h80, \h00, \h80, \h00, \h80>>)

\* the image Cartridge::new builds from a file with prg_banks = 1
OneBank(program) == [Cartridge(program) EXCEPT !.prg_len = 16384]

\* two banks that differ
SpinTwoBanks == Place(\hBFFF, <<\h77>>) @@ Spin

BusCartridges == {OneBank(SpinOneBank), Cartridge(SpinTwoBanks)}

NoBus == [n |-> 0, last |-> [op |-> "none", addr |-> 0, data |-> 0, before |-> <<>>]]

InitBus == \E c \in BusCartridges : StartObserved(c, NoBus)

\* mem_write(addr, data)
BusWrite ==
    \E addr \in BusAddrs, data \in BusData :
        /\ hist.n < MaxBusCalls
        /\ Becomes(mem_write(M, addr, data))
        /\ hist' = [n |-> hist.n + 1,
                    last |-> [op |-> "write", addr |-> addr, data |-> data, before |-> M]]
        /\ UNCHANGED <<nticks, nresets, fault>>

\* mem_read(addr)
BusRead ==
    \E addr \in BusAddrs :
        /\ hist.n < MaxBusCalls
        /\ \E r \in {mem_read(M, addr)} :
               /\ Becomes(r.m)
               /\ hist' = [n |-> hist.n + 1,
                           last |-> [op |-> "read", addr |-> addr, data |-> r.v,
                                     before |-> M]]
        /\ UNCHANGED <<nticks, nresets, fault>>

NextBus == BusWrite \/ BusRead

SpecBus == InitBus /\ [][NextBus]_vars

(***************************************************************************)
(* cartridge.rs: Cartridge::new on a file.  A file is [readable, len,      *)
(* bytes]: whether File::open succeeds, the length of the stream, and its  *)
(* non-zero bytes by offset.  The outcome is [kind, err, cart, chr_len]:   *)
(* kind "ok" with the cartridge, "err" with the message returned, or       *)
(* "panic" where an unwrap() fails.                                        *)
(***************************************************************************)
Outcome(kind, err, c, chr_len) == [kind |-> kind, err |-> err, cart |-> c, chr_len |-> chr_len]

\* the bytes pos..pos+size-1 of the stream, by offset from pos
Slice(bytes, pos, size) ==
    [o \in {i - pos : i \in {j \in DOMAIN bytes : j >= pos /\ j < pos + size}}
       |-> bytes[o + pos]]

\* Cartridge::new.  The seek over the trainer succeeds past the end of the
\* stream, and read_exact into an empty buffer succeeds wherever the stream
\* stands: a read fails only where bytes are asked for that are not there
Cartridge_new(file) ==
    IF ~file.readable THEN Outcome("panic", "File::open", <<>>, 0)
    ELSE IF file.len < 16 THEN Outcome("panic", "read_exact", <<>>, 0)
    ELSE IF <<Load(file.bytes, 0, 0), Load(file.bytes, 1, 0), Load(file.bytes, 2, 0),
              Load(file.bytes, 3, 0)>> # <<\h4E, \h45, \h53, \h1A>>
    THEN Outcome("err", "File is not in iNES file format", <<>>, 0)
    ELSE LET mapper_1 == Load(file.bytes, 6, 0)
             pos == IF BitAnd(mapper_1, \h04) = \h04 THEN 16 + 512 ELSE 16
             prg_bank_size == 16384 * Load(file.bytes, 4, 0)
             chr_is_ram == Load(file.bytes, 5, 0) = 0
             chr_bank_size == IF chr_is_ram THEN 8192 ELSE 8192 * Load(file.bytes, 5, 0)
             four_screen == BitAnd(mapper_1, \h08) = \h08
             vertical == BitAnd(mapper_1, \h01) = \h01
         IN  IF prg_bank_size > 0 /\ file.len < pos + prg_bank_size
             THEN Outcome("panic", "read_exact", <<>>, 0)
             ELSE IF ~chr_is_ram /\ file.len < pos + prg_bank_size + chr_bank_size
             THEN Outcome("panic", "read_exact", <<>>, 0)
             ELSE Outcome("ok", "",
                          [prg_rom |-> Slice(file.bytes, pos, prg_bank_size),
                           prg_len |-> prg_bank_size,
                           chr_rom |-> IF chr_is_ram THEN Empty
                                       ELSE Slice(file.bytes, pos + prg_bank_size,
                                                  chr_bank_size),
                           chr_is_ram |-> chr_is_ram,
                           mirror |-> IF four_screen THEN "FourScreen"
                                      ELSE IF vertical THEN "Vertical"
                                      ELSE "Horizontal"],
                          chr_bank_size)

(***************************************************************************)
(* main: the cartridge loaded from a file, and the machine built from it.  *)
(* `hist` holds the file, whether it has been loaded, and the outcome.     *)
(***************************************************************************)
\* the length an iNES file with this header must have
FullLength(flags6, prg_banks, chr_banks) ==
    16 + (IF BitAnd(flags6, \h04) = \h04 THEN 512 ELSE 0)
       + prg_banks * 16384 + chr_banks * 8192

\* an iNES file `cut` bytes short of its full length (longer, if negative),
\* with a byte ahead of the PRG data (in the trainer, if there is one), the
\* PRG data's first and last bytes and the CHR data's first byte marked
INesFile(magic, flags6, prg_banks, chr_banks, cut) ==
    LET full == FullLength(flags6, prg_banks, chr_banks)
        prg_at == full - chr_banks * 8192 - prg_banks * 16384
        marks == [i \in {prg_at - 1, prg_at, prg_at + prg_banks * 16384 - 1,
                         full - chr_banks * 8192}
                    |-> IF i = prg_at - 1 THEN \h11
                        ELSE IF i = prg_at THEN \h4C
                        ELSE IF i = prg_at + prg_banks * 16384 - 1 THEN \h80
                        ELSE \h3C]
        body == [i \in {j \in DOMAIN marks : j >= 16 /\ j < full - cut} |-> marks[i]]
        header == [i \in {j \in 0..6 : j < full - cut
                                       /\ <<magic[1], magic[2], magic[3], magic[4],
                                            prg_banks, chr_banks, flags6>>[j + 1] # 0}
                     |-> <<magic[1], magic[2], magic[3], magic[4],
                           prg_banks, chr_banks, flags6>>[i + 1]]
    IN  [readable |-> TRUE, len |-> full - cut, bytes |-> header @@ body]

Magics == {<<\h4E, \h45, \h53, \h1A>>, <<\h4E, \h45, \h53, \h00>>}
Flags6 == {\h00, \h01, \h04, \h08, \h09, \h0D}
PrgBanks == {0, 1, 2}
ChrBanks == {0, 1, 2}

\* whole; a byte short; the data's second half missing; the header alone;
\* half a header; five bytes too long
Cuts(flags6, prg_banks, chr_banks) ==
    {0, 1, 8192 * (prg_banks + chr_banks), FullLength(flags6, prg_banks, chr_banks) - 16,
     FullLength(flags6, prg_banks, chr_banks) - 8, -5}

Files ==
    {INesFile(magic, flags6, prg_banks, chr_banks, cut) :
        magic \in Magics, flags6 \in Flags6, prg_banks \in PrgBanks,
        chr_banks \in ChrBanks, cut \in UNION {Cuts(f, pb, cb) : f \in Flags6,
                                               pb \in PrgBanks, cb \in ChrBanks}}

NoLoad == [kind |-> "none", err |-> "", cart |-> <<>>, chr_len |-> 0]

InitLoad ==
    /\ \E file \in {f \in Files : f.len >= 0} \cup {[readable |-> FALSE, len |-> 0, bytes |-> Empty]} :
           hist = [file |-> file, outcome |-> NoLoad]
    /\ cpu = <<>> /\ bus = <<>> /\ ppu = <<>> /\ cart = <<>>
    /\ events = <<>>
    /\ nticks = Wide(0, 0)
    /\ nresets = 0
    /\ tally = [ppu |-> Wide(0, 0), cpu |-> 0]
    /\ instr = NoInstr
    /\ closed = NoInstr
    /\ fault = "none"

\* main: Cartridge::new(path), and on Ok the machine RunesApp::new builds
LoadOk ==
    /\ hist.outcome.kind = "none"
    /\ \E r \in {Cartridge_new(hist.file)} :
           /\ r.kind = "ok"
           /\ prg_in_bounds(r.cart, \hFFFC) /\ prg_in_bounds(r.cart, \hFFFD)
           /\ hist' = [hist EXCEPT !.outcome = r]
           /\ \E m \in {RunesApp_new(r.cart)} :
                  cpu' = m.cpu /\ bus' = m.bus /\ ppu' = m.ppu /\ cart' = m.cart
    /\ UNCHANGED <<events, nticks, nresets, tally, instr, closed, fault>>

\* Cartridge::new(path) returns Err
LoadErr ==
    /\ hist.outcome.kind = "none"
    /\ \E r \in {Cartridge_new(hist.file)} :
           /\ r.kind = "err"
           /\ hist' = [hist EXCEPT !.outcome = r]
    /\ UNCHANGED <<cpu, bus, ppu, cart, events, nticks, nresets, tally, instr, closed,
                   fault>>

\* an unwrap() inside Cartridge::new panics
LoadPanic ==
    /\ hist.outcome.kind = "none"
    /\ \E r \in {Cartridge_new(hist.file)} :
           /\ r.kind = "panic"
           /\ hist' = [hist EXCEPT !.outcome = r]
    /\ fault' = "panic"
    /\ UNCHANGED <<cpu, bus, ppu, cart, events, nticks, nresets, tally, instr, closed>>

\* main: Cartridge::new(path) returns Ok with an empty PRG vector, and
\* cpu.reset() in RunesApp::new panics reading the reset vector
LoadResetPanic ==
    /\ hist.outcome.kind = "none"
    /\ \E r \in {Cartridge_new(hist.file)} :
           /\ r.kind = "ok"
           /\ ~prg_in_bounds(r.cart, \hFFFC)
           /\ hist' = [hist EXCEPT !.outcome = r]
           /\ cart' = r.cart
    /\ fault' = "panic"
    /\ UNCHANGED <<cpu, bus, ppu, events, nticks, nresets, tally, instr, closed>>

NextLoad == LoadOk \/ LoadErr \/ LoadPanic \/ LoadResetPanic

SpecLoad == InitLoad /\ [][NextLoad]_vars

(***************************************************************************)
(* The PPU's counters over two frames, with a reset after the first.       *)
(* `hist` holds the clock() calls since the last reset or construction,    *)
(* the times the nmi line was raised since, the last operation and the     *)
(* PPU's counters and flags as that operation found them.                  *)
(***************************************************************************)
\* two frames and 20 ticks; the reset comes 10 ticks after the first frame
MaxScanTicks == 178704
ScanResetAt == 89352

ScanPrograms == {Spin, PollStatus(\h80), PollStatus(\h00)}

Seen(p) == [scanline |-> p.scanline, cycle |-> p.cycle, status |-> p.status_register,
            frame_complete |-> p.frame_complete]

InitScan ==
    \E program \in ScanPrograms :
        \E m \in {RunesApp_new(Cartridge(program))} :
            /\ cpu = m.cpu /\ bus = m.bus /\ ppu = m.ppu /\ cart = m.cart
            /\ events = <<>>
            /\ nticks = Wide(0, 0)
            /\ nresets = 0
            /\ tally = [ppu |-> Wide(0, 0), cpu |-> 0]
            /\ instr = NoInstr
            /\ closed = NoInstr
            /\ hist = [since |-> 0, raises |-> 0, op |-> "none", before |-> Seen(m.ppu)]
            /\ fault = "none"

ClockScan ==
    /\ ~TickGe(nticks, MaxScanTicks)
    /\ \E r \in {clock(M)} :
           /\ Becomes(r)
           /\ hist' = [since |-> hist.since + 1,
                       raises |-> hist.raises
                                    + Cardinality({i \in DOMAIN r.events :
                                                     r.events[i].e = "ppu"
                                                     /\ r.events[i].nmi}),
                       op |-> "clock", before |-> Seen(ppu)]
    /\ nticks' = TickInc(nticks)
    /\ UNCHANGED <<nresets, fault>>

ResetScan ==
    /\ hist.since = ScanResetAt
    /\ Becomes(reset(M))
    /\ nresets' = nresets + 1
    /\ hist' = [since |-> 0, raises |-> 0, op |-> "reset", before |-> Seen(ppu)]
    /\ UNCHANGED <<nticks, fault>>

NextScan == ClockScan \/ ResetScan

SpecScan == InitScan /\ [][NextScan]_vars

(***************************************************************************)
(* The status register read inside and outside the vertical blank, with a  *)
(* byte in the read buffer.  `hist` holds the number of accesses, and for  *)
(* the last two their kind, address, the byte read and the machine found.  *)
(***************************************************************************)
MaxStatusOps == 3

\* the clock() calls the host has run: none, or up to the vertical blank
StatusStarts == {0, VBlankSetAt + 5}
StatusData == {\hB7, \h5F}
StatusWriteAddrs == {\h2003, \h2004, \h2005, \h2006, \h2007}
StatusReadAddrs == {\h2002, \h3FFA, \h2007}

NoStatusOp == [op |-> "none", addr |-> 0, v |-> 0, pre |-> <<>>]

\* mem_write(0x2006, 0x2F); mem_write(0x2006, 0x00); mem_write(0x2007, d);
\* the same address again; mem_read(0x2007), which fills the buffer with d;
\* mem_write(0x2005, d)
Buffered(m, d) ==
    mem_write(
      mem_read(
        mem_write(mem_write(
          mem_write(mem_write(mem_write(m, \h2006, \h2F), \h2006, \h00), \h2007, d),
          \h2006, \h2F), \h2006, \h00),
        \h2007).m,
      \h2005, d)

InitStatus ==
    \E n \in StatusStarts, d \in StatusData :
        \E m \in {Buffered(run_for_budget(RunesApp_new(Cartridge(Spin)), n).m, d)} :
            /\ cpu = m.cpu /\ bus = m.bus /\ ppu = m.ppu /\ cart = m.cart
            /\ events = <<>>
            /\ nticks = Wide(0, 0)
            /\ nresets = 0
            /\ tally = [ppu |-> Wide(0, 0), cpu |-> 0]
            /\ instr = NoInstr
            /\ closed = NoInstr
            /\ hist = [n |-> 0, last |-> NoStatusOp, prev |-> NoStatusOp]
            /\ fault = "none"

StatusWrite ==
    \E addr \in StatusWriteAddrs, data \in StatusData :
        /\ hist.n < MaxStatusOps
        /\ Becomes(mem_write(M, addr, data))
        /\ hist' = [n |-> hist.n + 1, prev |-> hist.last,
                    last |-> [op |-> "write", addr |-> addr, v |-> data, pre |-> M]]
        /\ UNCHANGED <<nticks, nresets, fault>>

StatusMemRead ==
    \E addr \in StatusReadAddrs :
        /\ hist.n < MaxStatusOps
        /\ \E r \in {mem_read(M, addr)} :
               /\ Becomes(r.m)
               /\ hist' = [n |-> hist.n + 1, prev |-> hist.last,
                           last |-> [op |-> "read", addr |-> addr, v |-> r.v, pre |-> M]]
        /\ UNCHANGED <<nticks, nresets, fault>>

NextStatus == StatusWrite \/ StatusMemRead

SpecStatus == InitStatus /\ [][NextStatus]_vars

(***************************************************************************)
(* The nametables through the data port: one byte written at any address   *)
(* of 0x2000-0x3EFF, and, for three offsets, read back at the same offset  *)
(* of any nametable and of its mirror at 0x3000.  `hist` holds the         *)
(* accesses made, the address and byte written, and the address and byte   *)
(* read.                                                                   *)
(***************************************************************************)
MaxTableOps == 2

TableAddrs == \h2000..\h3EFF
TableData == {\hB7}
TableOffsets == {\h0000, \h02FF, \h03FF}

NoTable == [n |-> 0, addr |-> 0, data |-> 0, at |-> 0, v |-> 0]

\* mem_write(0x2006, high byte of a); mem_write(0x2006, low byte of a)
SetAddress(m, a) == mem_write(mem_write(m, \h2006, a \div 256), \h2006, a % 256)

InitTable == \E t \in Mirrorings : StartObserved(Mirrored(t), NoTable)

\* the address set, then mem_write(0x2007, d)
TableWrite ==
    \E a \in TableAddrs, d \in TableData :
        /\ hist.n = 0
        /\ Becomes(mem_write(SetAddress(M, a), \h2007, d))
        /\ hist' = [hist EXCEPT !.n = 1, !.addr = a, !.data = d]
        /\ UNCHANGED <<nticks, nresets, fault>>

\* the address set, mem_read(0x2007) to fill the buffer, the address set
\* again, mem_read(0x2007) for the buffered byte
TableRead ==
    \E k \in 0..3, up \in {0, \h1000} :
        \E b \in {\h2000 + k * \h0400 + (hist.addr % \h0400) + up} \cap TableAddrs :
            /\ hist.n >= 1
            /\ hist.n < MaxTableOps
            /\ hist.addr % \h0400 \in TableOffsets
            /\ \E r \in {mem_read(SetAddress(mem_read(SetAddress(M, b), \h2007).m, b),
                                  \h2007)} :
                   /\ Becomes(r.m)
                   /\ hist' = [hist EXCEPT !.n = @ + 1, !.at = b, !.v = r.v]
            /\ UNCHANGED <<nticks, nresets, fault>>

NextTable == TableWrite \/ TableRead

SpecTable == InitTable /\ [][NextTable]_vars

(***************************************************************************)
(* The emulator driven tick by tick through SBC #m and ADC #(m ^ 0xFF) on  *)
(* the same accumulator and carry.  `hist` holds the CPU as the SBC found  *)
(* it and as it left it.                                                   *)
(***************************************************************************)
MaxSbcTicks == 60

\* SEC or CLC
CarryOps == {\h38, \h18}

\* carry ; LDA #a ; SBC #m ; carry ; LDA #a ; ADC #(m ^ 0xFF) ; loop: JMP loop
SubtractAndAdd(carry, a, m) ==
    Place(\h8000, <<carry, \hA9, a, \hE9, m, carry, \hA9, a, \h69, BitXor(m, \hFF),
                    \h4C, \h0A, \h80>>)
      @@ Vectors(\h8000, \h8000, \h8000)

SbcPrograms ==
    {SubtractAndAdd(carry, a, m) : carry \in CarryOps, a \in AdcBytes, m \in AdcBytes}

NoSbc == [done |-> FALSE, before |-> <<>>, after |-> <<>>]

InitSbc == \E program \in SbcPrograms : StartObserved(Cartridge(program), NoSbc)

ClockSbc ==
    /\ nticks.hi = 0
    /\ nticks.lo < MaxSbcTicks
    /\ fault = "none"
    /\ \E r \in {clock(M)} :
           /\ Becomes(r)
           /\ hist' = IF \E i \in DOMAIN r.events :
                            r.events[i].e = "fetch" /\ r.events[i].opcode = \hE9
                      THEN [done |-> TRUE, before |-> Ev(r.events, "fetch").mid,
                            after |-> Ev(r.events, "fetch").after]
                      ELSE hist
    /\ nticks' = TickInc(nticks)
    /\ UNCHANGED <<nresets, fault>>

NextSbc == ClockSbc

SpecSbc == InitSbc /\ [][NextSbc]_vars

(***************************************************************************)
(* The emulator driven tick by tick through a shift or rotate of the       *)
(* accumulator and of a zero-page byte                                     *)
(***************************************************************************)
MaxShiftTicks == 60

ShiftBytes == {\h00, \h01, \h02, \h03, \h40, \h80, \h81, \hFF}

\* ASL, LSR, ROL, ROR: the opcode on the accumulator and on the zero page
ShiftOps == {<<\h0A, \h06>>, <<\h4A, \h46>>, <<\h2A, \h26>>, <<\h6A, \h66>>}

\* carry ; LDA #s ; op A ; loop: JMP loop
ShiftAccumulator(carry, src, op) ==
    Place(\h8000, <<carry, \hA9, src, op[1], \h4C, \h04, \h80>>)
      @@ Vectors(\h8000, \h8000, \h8000)

\* carry ; LDA #s ; STA $10 ; op $10 ; loop: JMP loop
ShiftMemory(carry, src, op) ==
    Place(\h8000, <<carry, \hA9, src, \h85, \h10, op[2], \h10, \h4C, \h07, \h80>>)
      @@ Vectors(\h8000, \h8000, \h8000)

ShiftPrograms ==
    {ShiftAccumulator(carry, src, op) :
        carry \in CarryOps, src \in ShiftBytes, op \in ShiftOps}
    \cup {ShiftMemory(carry, src, op) :
        carry \in CarryOps, src \in ShiftBytes, op \in ShiftOps}

InitShift == \E program \in ShiftPrograms : Start(Cartridge(program))

ClockShift ==
    /\ nticks.hi = 0
    /\ nticks.lo < MaxShiftTicks
    /\ Tick

NextShift == ClockShift

SpecShift == InitShift /\ [][NextShift]_vars

(***************************************************************************)
(* The emulator driven tick by tick through a call and its return, with    *)
(* the stack pointer anywhere in page 0x01.  `hist` holds the CPU as the   *)
(* kept instruction found it and as it left it.                            *)
(***************************************************************************)
MaxJsrTicks == 84

NoKept == [done |-> FALSE, before |-> <<>>, after |-> <<>>]

\* one call of CPU::clock; the registers around the instruction `opcode` are kept
ClockKeeping(opcode) ==
    /\ fault = "none"
    /\ \E r \in {clock(M)} :
           /\ Becomes(r)
           /\ hist' = IF \E i \in DOMAIN r.events :
                            r.events[i].e = "fetch" /\ r.events[i].opcode = opcode
                      THEN [done |-> TRUE, before |-> Ev(r.events, "fetch").before,
                            after |-> Ev(r.events, "fetch").after]
                      ELSE hist
    /\ nticks' = TickInc(nticks)
    /\ UNCHANGED <<nresets, fault>>

JsrOrigins == {\h8000, \h80FA, \h80FB}
JsrTargets == {\h9000, \hC0FF}
StackPointers == {\hFD, \h00, \h01, \hFF, \h80}

\* LDX #s ; TXS ; JSR t ; loop: JMP loop ... t: RTS
CallAndReturn(origin, sp, t) ==
    Place(origin, <<\hA2, sp, \h9A, \h20, Lo(t), Hi(t),
                    \h4C, Lo(origin + 6), Hi(origin + 6)>>)
      @@ Place(t, <<\h60>>) @@ Vectors(origin, origin, origin)

JsrPrograms ==
    {CallAndReturn(origin, sp, t) :
        origin \in JsrOrigins, sp \in StackPointers, t \in JsrTargets}

InitJsr == \E program \in JsrPrograms : StartObserved(Cartridge(program), NoKept)

ClockJsr ==
    /\ nticks.hi = 0
    /\ nticks.lo < MaxJsrTicks
    /\ ClockKeeping(\h20)

NextJsr == ClockJsr

SpecJsr == InitJsr /\ [][NextJsr]_vars

(***************************************************************************)
(* The emulator driven tick by tick through BRK and the RTI of its         *)
(* handler, with the interrupt-disable and carry flags either way          *)
(***************************************************************************)
MaxBrkTicks == 100

BrkOrigins == {\h8000, \h80F9}

\* CLI or SEI
InterruptOps == {\h58, \h78}

\* LDX #s ; TXS ; CLI or SEI ; SEC or CLC ; BRK ; (pad) ; loop: JMP loop
\* ... handler: RTI
BreakAndReturn(origin, sp, iflag, carry, handler) ==
    Place(origin, <<\hA2, sp, \h9A, iflag, carry, \h00, \hEA,
                    \h4C, Lo(origin + 7), Hi(origin + 7)>>)
      @@ Place(handler, <<\h40>>) @@ Vectors(handler, origin, handler)

BrkPrograms ==
    {BreakAndReturn(origin, sp, iflag, carry, \h9000) :
        origin \in BrkOrigins, sp \in StackPointers, iflag \in InterruptOps,
        carry \in CarryOps}

InitBrk == \E program \in BrkPrograms : StartObserved(Cartridge(program), NoKept)

ClockBrk ==
    /\ nticks.hi = 0
    /\ nticks.lo < MaxBrkTicks
    /\ ClockKeeping(\h00)

NextBrk == ClockBrk

SpecBrk == InitBrk /\ [][NextBrk]_vars

(***************************************************************************)
(* The emulator driven tick by tick through the NMI of the first vertical  *)
(* blank and the RTI of its handler, after the host has run it to the end  *)
(* of scanline 240.  `hist` holds the CPU as the NMI sequence found it and *)
(* as it left it.                                                          *)
(***************************************************************************)
MaxNmiTicks == 160

\* the clock() calls the host has run before: up to scanline 240, cycle 242
NmiLead == 82082

\* LDX #s ; TXS ; CLI or SEI ; SEC or CLC ; LDA #$80 ; STA $2000 ;
\* loop: JMP loop ... handler: RTI
WaitForNmi(sp, iflag, carry) ==
    Place(\h8000, <<\hA2, sp, \h9A, iflag, carry, \hA9, \h80, \h8D, \h00, \h20,
                    \h4C, \h0A, \h80>>)
      @@ Place(\h9000, <<\h40>>) @@ Vectors(\h9000, \h8000, \h8000)

NmiPrograms ==
    {WaitForNmi(sp, iflag, carry) :
        sp \in {\hFD, \h01}, iflag \in InterruptOps, carry \in CarryOps}

InitNmi ==
    \E program \in NmiPrograms :
        \E m \in {run_for_budget(RunesApp_new(Cartridge(program)), NmiLead).m} :
            /\ cpu = m.cpu /\ bus = m.bus /\ ppu = m.ppu /\ cart = m.cart
            /\ events = <<>>
            /\ nticks = Wide(0, 0)
            /\ nresets = 0
            /\ tally = [ppu |-> Wide(0, 0), cpu |-> 0]
            /\ instr = NoInstr
            /\ closed = NoInstr
            /\ hist = NoKept
            /\ fault = "none"

ClockNmi ==
    /\ nticks.hi = 0
    /\ nticks.lo < MaxNmiTicks
    /\ fault = "none"
    /\ \E r \in {clock(M)} :
           /\ Becomes(r)
           /\ hist' = IF \E i \in DOMAIN r.events : r.events[i].e = "nmi"
                      THEN [done |-> TRUE, before |-> Ev(r.events, "nmi").before,
                            after |-> r.cpu]
                      ELSE hist
    /\ nticks' = TickInc(nticks)
    /\ UNCHANGED <<nresets, fault>>

NextNmi == ClockNmi

SpecNmi == InitNmi /\ [][NextNmi]_vars

(***************************************************************************)
(* The emulator driven tick by tick through its first frame and past the   *)
(* end of it, on programs that write two OAM entries, two sprite colours   *)
(* and the mask, and then wait for sprite-zero-hit; the host may reset the *)
(* machine early in the frame or after its end.  `hist` holds the buffers  *)
(* of the PPU, the frame buffer before the last tick (`under`), the number *)
(* of clock() calls in all and since the reset, the number of CPU cycles   *)
(* since the reset, and for a reset the PPU and the frame buffer it found. *)
(***************************************************************************)
MaxDrawTicks == 89380
MaxAfterReset == 40

\* the numbers of clock() calls after which the host may reset
DrawResetAt == {40, 89349}

\* tile 0 has colour 1 in columns 1, 2, 5, 6; tile 1 is all colour 1; tile 2
\* all colour 2
Tiles ==
    [a \in 0..7 |-> \h66] @@ [a \in 16..23 |-> \hFF] @@ [a \in 40..47 |-> \hFF]

\* LDA #(4 * k) ; STA $2003 ; then LDA #byte ; STA $2004 for the four bytes
\* of OAM entry k
SetSprite(k, entry) ==
    <<\hA9, 4 * k, \h8D, \h03, \h20, \hA9, entry[1], \h8D, \h04, \h20,
      \hA9, entry[2], \h8D, \h04, \h20, \hA9, entry[3], \h8D, \h04, \h20,
      \hA9, entry[4], \h8D, \h04, \h20>>

\* OAM entry k becomes (17, tile 1, attr_k, 16) and entry l (19, tile 2,
\* attr_l, 20); then LDA #$3F ; STA $2006 ; LDA #$11 ; STA $2006 ;
\* LDA #$01 ; STA $2007 ; LDA #$02 ; STA $2007 ; LDA #mask ; STA $2001 ;
\* wait: BIT $2002 ; BVC wait ; done: JMP done
DrawAndWait(k, attr_k, l, attr_l, mask) ==
    Place(\h8000, SetSprite(k, <<17, 1, attr_k, 16>>) \o SetSprite(l, <<19, 2, attr_l, 20>>)
                    \o <<\hA9, \h3F, \h8D, \h06, \h20, \hA9, \h11, \h8D, \h06, \h20,
                         \hA9, \h01, \h8D, \h07, \h20, \hA9, \h02, \h8D, \h07, \h20,
                         \hA9, mask, \h8D, \h01, \h20,
                         \h2C, \h02, \h20, \h50, \hFB, \h4C, \h50, \h80>>)
      @@ Vectors(\h8000, \h8000, \h8000)

DrawPrograms ==
    {DrawAndWait(0, \h00, 63, \h00, \h1E), DrawAndWait(63, \h00, 0, \h00, \h1E),
     DrawAndWait(0, \h20, 1, \h00, \h1E), DrawAndWait(1, \h00, 0, \h20, \h16)}

\* a cartridge with the tiles in CHR ROM
TileCartridge(program) ==
    [Cartridge(program) EXCEPT !.chr_rom = Tiles, !.chr_is_ram = FALSE]

NoFound == [scanline |-> 0, cycle |-> 0, frame_complete |-> FALSE,
            frame_buffer |-> Empty]

InitDraw ==
    \E program \in DrawPrograms :
        \E m \in {RunesApp_new(TileCartridge(program))} :
            /\ cpu = m.cpu /\ bus = m.bus /\ ppu = m.ppu /\ cart = m.cart
            /\ events = <<>>
            /\ nticks = Wide(0, 0)
            /\ nresets = 0
            /\ tally = [ppu |-> Wide(0, 0), cpu |-> 0]
            /\ instr = NoInstr
            /\ closed = NoInstr
            /\ hist = [buffers |-> reset_buffers(NoPixels), under |-> Empty,
                       ticks |-> 0, since |-> 0, counted |-> 0, found |-> NoFound]
            /\ fault = "none"

ClockDraw ==
    /\ hist.ticks < MaxDrawTicks
    /\ nresets = 0 \/ hist.since < MaxAfterReset
    /\ \E r \in {clock(M)} :
           /\ Becomes(r)
           /\ hist' = [hist EXCEPT !.buffers = clock_buffers(ppu, @),
                                   !.under = hist.buffers.frame_buffer,
                                   !.ticks = @ + 1,
                                   !.since = @ + 1,
                                   !.counted = IF Has(r.events, "cpu") THEN @ + 1 ELSE @]
    /\ nticks' = TickInc(nticks)
    /\ UNCHANGED <<nresets, fault>>

\* the host's reset (RunesContext::reset)
ResetDraw ==
    /\ nresets = 0
    /\ hist.ticks \in DrawResetAt
    /\ Becomes(reset(M))
    /\ nresets' = nresets + 1
    /\ hist' = [hist EXCEPT !.buffers = reset_buffers(@),
                            !.under = hist.buffers.frame_buffer,
                            !.since = 0,
                            !.counted = 0,
                            !.found = [scanline |-> ppu.scanline, cycle |-> ppu.cycle,
                                       frame_complete |-> ppu.frame_complete,
                                       frame_buffer |-> hist.buffers.frame_buffer]]
    /\ UNCHANGED <<nticks, fault>>

NextDraw == ClockDraw \/ ResetDraw

SpecDraw == InitDraw /\ [][NextDraw]_vars

(***************************************************************************)
(* The emulator driven tick by tick from reset to the NMI of the first     *)
(* vertical blank and past it, on programs that loop through PLP, PHP, an  *)
(* RTI on a frame pushed by hand, and BRK.  `hist` holds the CPU before    *)
(* and after the last PLP.                                                 *)
(***************************************************************************)
MaxFlagTicks == 82400

\* the bytes pulled into the status
FlagBytes == {\h00, \h10, \hDF, \hFF}

\* LDA #$80 ; STA $2000 ; loop: LDA #v ; PHA ; PLP ; PHP ; PLA ;
\* LDA #$80 ; PHA ; LDA #$17 ; PHA ; LDA #v ; PHA ; RTI (to $8017) ; NOP ; NOP ;
\* $8017: BRK ; NOP ; JMP loop ... handler of NMI and BRK: RTI
PullAndPush(v) ==
    Place(\h8000, <<\hA9, \h80, \h8D, \h00, \h20,
                    \hA9, v, \h48, \h28, \h08, \h68,
                    \hA9, \h80, \h48, \hA9, \h17, \h48, \hA9, v, \h48, \h40, \hEA, \hEA,
                    \h00, \hEA, \h4C, \h05, \h80>>)
      @@ Place(\h9000, <<\h40>>) @@ Vectors(\h9000, \h8000, \h9000)

FlagPrograms == {PullAndPush(v) : v \in FlagBytes}

InitFlags == \E program \in FlagPrograms : StartObserved(Cartridge(program), NoKept)

ClockFlags ==
    /\ ~TickGe(nticks, MaxFlagTicks)
    /\ ClockKeeping(\h28)

NextFlags == ClockFlags

SpecFlags == InitFlags /\ [][NextFlags]_vars

(***************************************************************************)
(* Properties.  The steps of the last clock() call are in `events`, in the *)
(* order the call performed them.                                          *)
(***************************************************************************)
Index(evs, kind) == CHOOSE i \in DOMAIN evs : evs[i].e = kind

\* the PPU step of the last call left the nmi line high
Raised == Has(events, "ppu") /\ Ev(events, "ppu").nmi

\* the last call fetched an opcode after its PPU step and before its NMI sequence
FetchBeforeNmi ==
    \E k \in DOMAIN events :
        /\ events[k].e = "fetch"
        /\ Index(events, "ppu") < k
        /\ k < Index(events, "nmi")

\* C1 as stated: once the PPU has set its nmi line during a tick, the NMI
\* sequence runs before the CPU fetches any further opcode, also when the
\* raising tick is itself a CPU cycle with no cycles remaining.
C1_NmiBeforeAnyFetch ==
    Raised => (Has(events, "nmi") /\ ~FetchBeforeNmi)

\* C1, amended: the NMI sequence runs in the clock() call whose PPU step
\* raised the line, as that call's last step, so no later tick fetches before
\* it; but the raising tick's own CPU cycle comes first, and when that tick
\* is a CPU cycle with no cycles remaining it fetches and executes one
\* opcode between the raise and the NMI sequence, which then pushes the
\* program counter that opcode left.
C1_NmiInRaisingTick ==
    /\ ~ppu.nmi
    /\ Raised =>
         /\ Has(events, "nmi")
         /\ Index(events, "nmi") = Len(events)
         /\ Count(events, "fetch") <= 1
         /\ FetchBeforeNmi <=>
              (Ev(events, "ppu").phase = 0 /\ Ev(events, "ppu").cycles = 0)
         /\ FetchBeforeNmi =>
              Ev(events, "nmi").before.program_counter
                  = Ev(events, "fetch").after.program_counter

\* the line was raised in a tick that fetched an opcode
C1_RaisedInFetchingTick == Raised /\ Has(events, "fetch") /\ Has(events, "nmi")

\* C2: from reset, the PPU raises nmi exactly on the ticks processed at
\* scanline 241, cycle 1 with control bit 7 set, so for the first time on
\* tick 241 * 341 + 1 and on no earlier one; the NMI sequence runs in that
\* same call (within 7 CPU cycles, 21 ticks), and the line is low after it.
C2_FirstNmiAtVBlank ==
    /\ ~ppu.nmi
    /\ Has(events, "ppu") =>
         LET e == Ev(events, "ppu")
         IN  /\ (e.scanline * 341 + e.cycle + 1) % FrameTicks
                    = TickMod(nticks, FrameTicks)
             /\ e.nmi <=> (e.scanline = 241 /\ e.cycle = 1 /\ Test(e.control, \h80))
             /\ e.nmi => (Has(events, "nmi") /\ TickGe(nticks, VBlankSetAt + 1))

\* the first vertical blank with control bit 7 set: raised and serviced
C2_RaisedAndServiced ==
    /\ Raised
    /\ nticks = Wide(1, VBlankSetAt + 1 - 65536)
    /\ cpu.program_counter = \h9000
    /\ cpu.cycles = 8

\* C3: after N clock() calls from construction the PPU has been ticked N
\* times and the CPU cycle has run ceil(N/3) times, on ticks 0, 3, 6, ...;
\* in a tick that is a CPU cycle the PPU tick comes first.
C3_Cadence ==
    /\ tally.ppu = nticks
    /\ tally.cpu = CeilDiv3(nticks)
    /\ Has(events, "ppu") =>
         /\ events[1].e = "ppu"
         /\ Count(events, "ppu") = 1
         /\ Has(events, "cpu") <=> (TickMod(nticks, 3) = 1)

\* the cadence on the ticks before the counter's maximum: C3 for N < 2^32
C3_CadenceBeforeWrap == nticks.hi < 65536 => C3_Cadence

\* the number of CPU cycles run after 2^32 + 1 ticks in the release build
C3_CyclesPastWrap ==
    (nticks = Wide(65536, 1) /\ fault = "none") => tally.cpu = CeilDiv3(nticks) + 1

(***************************************************************************)
(* What a fetch should cost, computed from the registers the fetch found   *)
(* and the bytes of the program, beside the emulator's own result          *)
(***************************************************************************)
Decoded(ev) == INSTRUCTION_LOOKUP[ev.opcode]

Branches == {"BCC", "BCS", "BEQ", "BNE", "BMI", "BPL", "BVC", "BVS"}

IsBranch(ev) == Decoded(ev).operate \in Branches

\* the condition of a branch on the status register the fetch found
Taken(ev) ==
    LET p == ev.before.status
        op == Decoded(ev).operate
    IN  CASE op = "BCS" -> Test(p, StatusFlag.C)
          [] op = "BCC" -> ~Test(p, StatusFlag.C)
          [] op = "BEQ" -> Test(p, StatusFlag.Z)
          [] op = "BNE" -> ~Test(p, StatusFlag.Z)
          [] op = "BMI" -> Test(p, StatusFlag.N)
          [] op = "BPL" -> ~Test(p, StatusFlag.N)
          [] op = "BVS" -> Test(p, StatusFlag.V)
          [] op = "BVC" -> ~Test(p, StatusFlag.V)
          [] OTHER -> FALSE

\* the program counter after a branch's operand, and the branch's target:
\* the operand byte of the program, sign-extended, added modulo 2^16
PcAfterOperand(ev) == (ev.before.program_counter + 2) % 65536

OffsetByte(ev) == read_prg_rom(cart, (ev.before.program_counter + 1) % 65536)

BranchTarget(ev) ==
    LET b == OffsetByte(ev)
    IN  (PcAfterOperand(ev) + (IF b >= 128 THEN b - 256 ELSE b) + 65536) % 65536

InRom(ev) == ev.before.program_counter >= \h8000 /\ ev.before.program_counter < \hFFFE

BranchPenalty(ev) ==
    IF IsBranch(ev) /\ Taken(ev)
    THEN 1 + (IF Hi(BranchTarget(ev)) # Hi(PcAfterOperand(ev)) THEN 1 ELSE 0)
    ELSE 0

\* the index register an indexed mode adds, and whether adding it left the
\* page of the base address (the operand's, or the zero-page pointer's, high byte)
IndexOf(ev) ==
    IF Decoded(ev).addrmode = "ABX" THEN ev.before.x_register ELSE ev.before.y_register

PageCrossed(ev) ==
    LET base == (ev.mid.addr_abs + 65536 - IndexOf(ev)) % 65536
    IN  BitAnd(ev.mid.addr_abs, \hFF00) # Hi(base) * 256

\* the operations that pay for a crossed page
PayingOps == {"LDA", "LDX", "LDY", "ADC", "SBC", "AND", "EOR", "ORA", "CMP", "NOP"}

PagePenalty(ev) ==
    IF /\ Decoded(ev).addrmode \in {"ABX", "ABY", "IZY"}
       /\ Decoded(ev).operate \in PayingOps
       /\ PageCrossed(ev)
    THEN 1 ELSE 0

ExpectedCost(ev) == ev.base + BitAnd(ev.add1, ev.add2) + BranchPenalty(ev)

\* C4 as stated: for every instruction fetched, the CPU cycles from the one
\* that fetches it up to, not including, the one that fetches the next
\* opcode number its base cost + (page-cross penalty AND operation penalty)
\* + branch-taken penalty + branch-page-cross penalty.
C4_CyclesToNextFetch ==
    closed.open => closed.elapsed = ExpectedCost(closed.fetch)

\* C4, amended: that count holds for every instruction during which no NMI
\* is serviced; when the NMI sequence runs after k of its cycles, the cycle
\* counter is set to 8 and the next opcode is fetched k + 8 cycles after
\* the instruction's fetch, whatever its cost.
C4_CyclesToNextFetchOrNmi ==
    closed.open =>
        IF closed.interrupted
        THEN closed.elapsed = closed.cut + 8
        ELSE closed.elapsed = ExpectedCost(closed.fetch)

\* an instruction with a penalty ran to the next fetch undisturbed
C4_PenalisedInstructionClosed ==
    /\ closed.open
    /\ ~closed.interrupted
    /\ closed.elapsed > closed.fetch.base

\* C5: a non-branch fetch costs one cycle more than its base exactly when
\* its mode is ABX, ABY or IZY, the indexed address is on another page than
\* the base address, and the operation is a load, ADC, SBC, AND, EOR, ORA,
\* CMP or an absolute-X NOP; stores, read-modify-writes and the other modes
\* never pay.
C5_PageCrossPenalty ==
    \A i \in DOMAIN events :
        (events[i].e = "fetch" /\ ~IsBranch(events[i])) =>
            /\ events[i].cost = events[i].base + PagePenalty(events[i])
            /\ (Decoded(events[i]).addrmode \in {"ABX", "ABY"} /\ InRom(events[i])) =>
                 Hi(events[i].mid.addr_abs - IndexOf(events[i]) + 65536) % 256
                     = read_prg_rom(cart, (events[i].before.program_counter + 2) % 65536)

\* an indirect-indexed load crossed a page and paid for it
C5_CrossingLoadPaid ==
    /\ Has(events, "fetch")
    /\ Decoded(Ev(events, "fetch")).addrmode = "IZY"
    /\ Decoded(Ev(events, "fetch")).operate = "LDA"
    /\ PageCrossed(Ev(events, "fetch"))
    /\ Ev(events, "fetch").cost = Ev(events, "fetch").base + 1

\* C6: a branch whose condition is false leaves the PC after its operand
\* and costs its base; one whose condition is true sets the PC to that
\* address plus the sign-extended offset, modulo 2^16, and costs one cycle
\* more, and a second one exactly when the target's high byte differs.
C6_Branches ==
    \A i \in DOMAIN events :
        (events[i].e = "fetch" /\ IsBranch(events[i]) /\ InRom(events[i])) =>
            LET ev == events[i]
            IN  /\ Decoded(ev).addrmode = "REL"
                /\ ev.mid.program_counter = PcAfterOperand(ev)
                /\ ~Taken(ev) =>
                     /\ ev.after.program_counter = PcAfterOperand(ev)
                     /\ ev.cost = ev.base
                /\ Taken(ev) =>
                     /\ ev.after.program_counter = BranchTarget(ev)
                     /\ ev.cost = ev.base + 1
                          + (IF Hi(BranchTarget(ev)) # Hi(PcAfterOperand(ev)) THEN 1 ELSE 0)

\* a branch was taken backwards across a page boundary
C6_TakenAcrossPage ==
    /\ Has(events, "fetch")
    /\ IsBranch(Ev(events, "fetch"))
    /\ Taken(Ev(events, "fetch"))
    /\ OffsetByte(Ev(events, "fetch")) >= 128
    /\ Ev(events, "fetch").after.program_counter < PcAfterOperand(Ev(events, "fetch"))
    /\ Ev(events, "fetch").cost = Ev(events, "fetch").base + 2

\* C7: the cycle counter is never below 0: every decrement finds it at 1 or
\* more; and right after a fetch it is the base cost plus at most one
\* page-cross, one branch-taken and one branch-page-cross penalty.
C7_CyclesNeverNegative ==
    /\ cpu.cycles \in 0..255
    /\ \A i \in DOMAIN events :
        /\ events[i].e = "cpu" =>
             /\ events[i].cycles >= 1
             /\ ~Has(events, "nmi") => cpu.cycles = events[i].cycles - 1
        /\ events[i].e = "fetch" =>
             LET ev == events[i]
                 page == BitAnd(ev.add1, ev.add2)
                 rest == ev.cost - ev.base - page
             IN  /\ ev.base >= 1
                 /\ page \in {0, 1}
                 /\ rest \in {0, 1, 2}
                 /\ rest > 0 => (IsBranch(ev) /\ Taken(ev) /\ page = 0)
                 /\ rest = 2 => Hi(ev.after.program_counter) # Hi(ev.mid.program_counter)

\* a decrement took the counter from 1 to 0
C7_CountedDownToZero ==
    /\ Has(events, "cpu")
    /\ ~Has(events, "fetch")
    /\ Ev(events, "cpu").cycles = 1
    /\ cpu.cycles = 0

(***************************************************************************)
(* The PPU's registers                                                     *)
(***************************************************************************)
\* the last access was a write to 0x2005 or 0x2006 (or a mirror)
LatchWriteLast ==
    /\ hist.last.op = "write"
    /\ hist.last.reg \in {5, 6}
    /\ hist.writes # <<>>

LastWrite == hist.writes[Len(hist.writes)]

\* the address register with its high byte, or its low byte, replaced
HighLoaded(a, d) == BitAnd(BitOr(BitAnd(a, \h00FF), d * 256), \h3FFF)

LowLoaded(a, d) == BitAnd(BitOr(BitAnd(a, \hFF00), d), \h3FFF)

\* C8: whatever was written to 0x2005 and 0x2006 before, after a read of
\* 0x2002 the latch selects the first write, and the next write to 0x2006
\* loads the high byte of the address register (bits 8-13; the register
\* keeps 14 bits).
C8_StatusReadResetsLatch ==
    hist.since = "status" =>
        /\ hist.writes = <<>> => ppu.address_latch
        /\ (LatchWriteLast /\ Len(hist.writes) = 1 /\ LastWrite.reg = 6) =>
              /\ ppu.address_register
                     = HighLoaded(LastWrite.pre.address_register, LastWrite.data)
              /\ ~ppu.address_latch

\* a status read found the latch on the second write, and the 0x2006 write
\* after it loaded the high byte
C8_HighByteAfterStatusRead ==
    /\ hist.since = "status"
    /\ ~hist.found
    /\ LatchWriteLast
    /\ Len(hist.writes) = 1
    /\ LastWrite.reg = 6
    /\ LastWrite.data = \hFF
    /\ Hi(LastWrite.pre.address_register) = \h04
    /\ Hi(ppu.address_register) = \h3F

\* C9: 0x2005 and 0x2006 share one latch, which every write to either
\* toggles: the first write after a status read, reset or construction sets
\* scroll_x or the address's high byte, the second sets scroll_y or the
\* address's low byte, whichever of the two registers the other went to.
C9_SharedLatch ==
    /\ ppu.address_latch = (Len(hist.writes) % 2 = 0)
    /\ LatchWriteLast =>
         LET w == LastWrite
             first == Len(hist.writes) % 2 = 1
         IN  IF w.reg = 5
             THEN /\ ppu.scroll_x = IF first THEN w.data ELSE w.pre.scroll_x
                  /\ ppu.scroll_y = IF first THEN w.pre.scroll_y ELSE w.data
                  /\ ppu.address_register = w.pre.address_register
             ELSE /\ ppu.address_register
                         = IF first THEN HighLoaded(w.pre.address_register, w.data)
                           ELSE LowLoaded(w.pre.address_register, w.data)
                  /\ ppu.scroll_x = w.pre.scroll_x
                  /\ ppu.scroll_y = w.pre.scroll_y

\* after a status read, a write to 0x2005 set scroll_x and the write to
\* 0x2006 after it loaded the low byte
C9_ScrollThenAddressLow ==
    /\ hist.since = "status"
    /\ LatchWriteLast
    /\ Len(hist.writes) = 2
    /\ hist.writes[1].reg = 5
    /\ hist.writes[2].reg = 6
    /\ hist.writes[1].data = \h3F
    /\ hist.writes[2].data = \hFF
    /\ ppu.scroll_x = \h3F
    /\ Lo(ppu.address_register) = \hFF
    /\ Lo(hist.writes[2].pre.address_register) # \hFF

\* C10: the address register is at most 0x3FFF in every state, after writes
\* to 0x2006, after reads and writes of 0x2007 with either increment, which
\* wrap from 0x3FFF to 0x0000 or 0x001F, and after resets.
C10_AddressWithin14Bits ==
    /\ ppu.address_register \in 0..16383
    /\ (hist.last.reg = 7 /\ hist.last.op \in {"read", "write"}) =>
          ppu.address_register
              = (hist.last.pre + (IF Test(ppu.control_register, 4) THEN 32 ELSE 1)) % 16384

\* an access to 0x2007 at 0x3FFF with the increment of 32 wrapped to 0x001F
C10_WrappedBy32 ==
    /\ hist.last.reg = 7
    /\ hist.last.op \in {"read", "write"}
    /\ hist.last.pre = 16383
    /\ ppu.address_register = 31

(***************************************************************************)
(* The palette (SpecPalette)                                               *)
(***************************************************************************)
\* the last access of the data port
LastOp == hist.ops[Len(hist.ops)]

\* C11: after any sequence of palette writes, a read of any palette address
\* 0x3F00..0x3FFF returns the byte last written to its entry, under whichever
\* of the entry's addresses the write was made (0x3F10, 0x3F14, 0x3F18,
\* 0x3F1C name the entries of 0x3F00, 0x3F04, 0x3F08, 0x3F0C; the palette
\* repeats every 32 bytes)
C11_PaletteAliases ==
    \A a \in \h3F00..\h3FFF :
        PaletteClass(a) \in DOMAIN hist.shadow
            => ppu_read(ppu, a) = hist.shadow[PaletteClass(a)]

\* what C11 comes to in the code: the read returns the low six bits of the
\* byte last written to the entry
C11_PaletteAliasesLowSix ==
    \A a \in \h3F00..\h3FFF :
        PaletteClass(a) \in DOMAIN hist.shadow
            => ppu_read(ppu, a) = hist.shadow[PaletteClass(a)] % 64

\* C12: a read of 0x2007 at a palette address returns the byte last written
\* through 0x2007 at that address or at any alias of it, for every byte
\* 0x00..0xFF
C12_PaletteWriteThenRead ==
    (Len(hist.ops) > 0 /\ LastOp.op = "read" /\ InPalette(LastOp.addr)
       /\ PaletteClass(LastOp.addr) \in DOMAIN hist.shadow)
        => LastOp.data = hist.shadow[PaletteClass(LastOp.addr)]

\* what C12 comes to in the code: the low six bits come back
C12_PaletteWriteThenReadLowSix ==
    (Len(hist.ops) > 0 /\ LastOp.op = "read" /\ InPalette(LastOp.addr)
       /\ PaletteClass(LastOp.addr) \in DOMAIN hist.shadow)
        => LastOp.data = hist.shadow[PaletteClass(LastOp.addr)] % 64

(***************************************************************************)
(* The nametables and the read buffer (SpecVram)                           *)
(***************************************************************************)
\* accesses k..k+4 are: set the address to a in 0x2000..0x3EFF, write a byte,
\* set the address to a again, read, read
WriteReadRead(k) ==
    /\ k + 4 <= Len(hist.ops)
    /\ hist.ops[k].op = "addr" /\ hist.ops[k].data >= \h2000 /\ hist.ops[k].data <= \h3EFF
    /\ hist.ops[k + 1].op = "write"
    /\ hist.ops[k + 2].op = "addr" /\ hist.ops[k + 2].data = hist.ops[k].data
    /\ hist.ops[k + 3].op = "read"
    /\ hist.ops[k + 4].op = "read"

\* the second read is made below the palette
SecondReadBelowPalette(k) == hist.ops[k + 4].addr < \h3F00

\* C13 as stated: for every a in 0x2000..0x3EFF, every mirroring tag and every
\* byte v, after (address := a, write v, address := a, read, read) the second
\* read returns v and the first returns the buffer it found
C13_WriteThenReadTwice ==
    \A k \in DOMAIN hist.ops :
        WriteReadRead(k)
            => /\ hist.ops[k + 3].data = hist.ops[k + 3].buf
               /\ hist.ops[k + 4].data = hist.ops[k + 1].data

\* C13 amended: the same, for the addresses a whose successor (a + 1, or
\* a + 32 with control bit 2 set) is below 0x3F00; for the others the
\* second read is a palette read and returns the byte the palette holds
\* when it is made
C13_WriteThenReadTwiceBelowPalette ==
    \A k \in DOMAIN hist.ops :
        WriteReadRead(k)
            => /\ hist.ops[k + 3].data = hist.ops[k + 3].buf
               /\ hist.ops[k + 3].addr = hist.ops[k].data
               /\ hist.ops[k + 4].addr = (hist.ops[k].data + hist.ops[k + 3].step) % 16384
               /\ IF SecondReadBelowPalette(k)
                  THEN hist.ops[k + 4].data = hist.ops[k + 1].data
                  ELSE k + 4 = Len(hist.ops)
                         => hist.ops[k + 4].data =
                              Load(ppu.palette, PaletteClass(hist.ops[k + 4].addr), 0)

\* C13 witness: the procedure has run at 0x3400 (a mirror of 0x2400) with the
\* increment of 32 and a byte other than the buffer's, and the second read
\* returned the byte
C13_ReadBackThroughMirror ==
    /\ WriteReadRead(1)
    /\ hist.ops[1].data = \h3400 /\ hist.ops[4].step = 32
    /\ hist.ops[2].data = \hB7 /\ hist.ops[4].data = 0 /\ hist.ops[5].data = \hB7

\* the VRAM cell a nametable address selects under the mirroring tag:
\* the table (a mod 0x1000) div 0x400 goes to bank (table mod 2) under
\* Vertical, bank (table div 2) under Horizontal, and to itself otherwise
NameCell(a) ==
    LET table == (a % 4096) \div 1024
        bank == CASE ppu.mirroring = "Vertical" -> table % 2
                  [] ppu.mirroring = "Horizontal" -> table \div 2
                  [] OTHER -> table
    IN  bank * 1024 + (a % 1024)

\* the byte held at an address below 0x3F00
Content(a) ==
    IF a < \h2000 THEN Load(ppu.chr_rom, a, 0) ELSE Load(ppu.vram, NameCell(a), 0)

\* C14: a read of 0x2007 below 0x3F00 returns the buffer's previous content
\* and refills the buffer from the address; a read at 0x3F00..0x3FFF returns
\* the palette byte and fills the buffer from address - 0x1000; every read
\* and write of 0x2007 then advances the address by 1 with control bit 2
\* clear and by 32 with it set (within the register's 14 bits)
C14_BufferedRead ==
    (Len(hist.ops) > 0 /\ LastOp.op \in {"read", "write"})
        => /\ ppu.address_register = (LastOp.addr + LastOp.step) % 16384
           /\ LastOp.op = "read" /\ ~InPalette(LastOp.addr)
                => /\ LastOp.data = LastOp.buf
                   /\ ppu.data_buffer = Content(LastOp.addr)
           /\ LastOp.op = "read" /\ InPalette(LastOp.addr)
                => /\ LastOp.data = Load(ppu.palette, PaletteClass(LastOp.addr), 0)
                   /\ ppu.data_buffer = Content(LastOp.addr - \h1000)

\* C14 witness: a read at 0x3F00 with the increment of 32 returned the
\* palette's byte, filled the empty buffer with the byte written at 0x2F00
\* and left the address at 0x3F20
C14_PaletteReadFillsBuffer ==
    /\ Len(hist.ops) > 0 /\ LastOp.op = "read" /\ LastOp.addr = \h3F00
    /\ LastOp.data = 0 /\ LastOp.buf = 0 /\ ppu.data_buffer = \hB7
    /\ ppu.address_register = \h3F20

(***************************************************************************)
(* CPU RAM and the OAM DMA (SpecRam)                                       *)
(***************************************************************************)
\* the RAM cells written so far or holding a byte, at their four addresses
RamTouched ==
    {c + k * 2048 : c \in DOMAIN hist.shadow \cup DOMAIN bus.cpu_vram \cup {0, 2047},
                    k \in 0..3}

\* C15: after any sequence of bus writes, every address of 0x0000..0x1FFF
\* reads as its cell addr & 0x07FF does: the byte last written to the cell
\* through any of its four addresses, and 0 in every cell never written
C15_RamMirrors ==
    /\ \A addr \in RamTouched :
          /\ mem_read(M, addr).v = Load(hist.shadow, addr % 2048, 0)
          /\ mem_read(M, addr).v = mem_read(M, addr % 2048).v
    /\ \A c \in DOMAIN bus.cpu_vram : c \in DOMAIN hist.shadow

\* C15 witness: 0xAA written at 0x0801 and 0x55 at 0x1FFF read back at
\* 0x0001, 0x1001 and 0x07FF
C15_WrittenThroughMirrors ==
    /\ hist.n >= 2
    /\ mem_read(M, \h0001).v = \hAA /\ mem_read(M, \h1001).v = \hAA
    /\ mem_read(M, \h07FF).v = \h55

\* byte i of the page a DMA reads: the RAM cell's last written byte; the
\* program's byte in ROM; and in the PPU's registers, read one after the
\* other with the PPU's memory and status empty, the OAM byte under the OAM
\* address from 0x2004 and 0 from the others
PageByte(page, i) ==
    LET addr == page * 256 + i
    IN  IF addr < \h2000 THEN Load(hist.shadow, addr % 2048, 0)
        ELSE IF addr < \h4000
        THEN IF addr % 8 = 4
             THEN Load(hist.last.oam, (hist.last.oam_addr + i) % 256, 255)
             ELSE 0
        ELSE IF addr \in DOMAIN Spin THEN Spin[addr] ELSE 0

\* C17: a write of d to 0x4014 copies the 256 bytes read from (d << 8) + i,
\* in order, to OAM[(OAMADDR + i) mod 256], and leaves OAMADDR as it was
C17_OamDma ==
    (hist.last.op = "write" /\ hist.last.addr = \h4014)
        => /\ \A i \in 0..255 :
                Load(ppu.oam, (hist.last.oam_addr + i) % 256, 255)
                    = PageByte(hist.last.data, i)
           /\ ppu.oam_addr = hist.last.oam_addr

\* C17 witness: a DMA of page 0 with OAMADDR = 0xFE has put the bytes of
\* 0x0000, 0x0001 and 0x00FF at OAM 0xFE, 0xFF and 0xFD
C17_CopiedAroundTheEnd ==
    /\ hist.last.op = "write" /\ hist.last.addr = \h4014 /\ hist.last.data = 0
    /\ hist.last.oam_addr = \hFE
    /\ Load(ppu.oam, \hFE, 255) = 0 /\ Load(ppu.oam, \hFF, 255) = \hAA
    /\ Load(ppu.oam, \hFD, 255) = 0

(***************************************************************************)
(* Register mirrors (SpecMirror)                                           *)
(***************************************************************************)
\* the register address a mirror stands for
Canonical(addr) == \h2000 + (addr % 8)

\* C16: a bus read or write at an address of 0x2008..0x3FFF returns the same
\* value and leaves the same machine as the access at 0x2000 + (addr & 7),
\* whatever state the PPU is in
C16_RegisterMirrors ==
    /\ hist.last.op = "write"
         => M = mem_write(hist.last.before, Canonical(hist.last.addr), hist.last.data)
    /\ hist.last.op = "read"
         => /\ M = mem_read(hist.last.before, Canonical(hist.last.addr)).m
            /\ hist.last.data = mem_read(hist.last.before, Canonical(hist.last.addr)).v

\* C16 witness: with the high address byte 0x3F written through 0x3FFE and a
\* byte through 0x2AAF, a read at 0x200A has returned the status and put the
\* address latch back
C16_StatusReadAtMirror ==
    /\ hist.last.op = "read" /\ hist.last.addr = \h200A
    /\ ~hist.last.before.ppu.address_latch /\ ppu.address_latch
    /\ hist.last.before.ppu.address_register = \h3F00

(***************************************************************************)
(* The controllers (SpecPad)                                               *)
(***************************************************************************)
\* bit k of a byte
BitOf(v, k) == (v \div (2 ^ k)) % 2

\* C19: while the strobe is high the shifting registers equal the live
\* latches after every bus operation and every set_controller_state, and a
\* read of 0x4016 or 0x4017 returns bit 0 of the live latch and shifts nothing
C19_StrobeHigh ==
    /\ bus.controller_strobe => bus.controller_state = bus.controller
    /\ (hist.last.op = "read" /\ hist.last.before.controller_strobe)
         => /\ hist.last.data = BitOf(hist.last.before.controller[hist.last.addr % 2], 0)
            /\ bus = hist.last.before

\* C19 witness: eight reads of 0x4016 in a row with the strobe high and the
\* live value 0xA5, the last returning 1 with the register still 0xA5
C19_EightReadsHeld ==
    /\ hist.run >= 8
    /\ hist.last.op = "read" /\ hist.last.data = 1
    /\ bus.controller[0] = \hA5 /\ bus.controller_state[0] = \hA5

\* the strobe has been written low, then high, then low, and nothing since
Latched == hist.strobes = <<0, 1, 0>>

\* C20: once the strobe has been written low, high, low, the reads of
\* 0x4016 return bits 0, 1, ..., 7 of the live value controller 0 had when
\* the strobe fell, each read shifting the register right by one, whatever
\* the host sets afterwards
C20_SerialRead ==
    Latched
        => /\ \A k \in 1..Len(hist.bits) : hist.bits[k] = BitOf(hist.latched, k - 1)
           /\ Len(hist.bits) < MaxPadReads
                => bus.controller_state[0] = hist.latched \div (2 ^ Len(hist.bits))
           /\ Len(hist.bits) >= 8 => bus.controller_state[0] = 0

\* C20 witness: 0xA5 latched, the host has set 0x5A since, and eight reads
\* have returned 1,0,1,0,0,1,0,1
C20_A5ReadOut ==
    /\ Latched /\ hist.latched = \hA5 /\ bus.controller[0] = \h5A
    /\ Len(hist.bits) >= 8
    /\ SubSeq(hist.bits, 1, 8) = <<1, 0, 1, 0, 0, 1, 0, 1>>

(***************************************************************************)
(* The cost of OAM DMA (SpecDma)                                           *)
(***************************************************************************)
\* the instruction that ran up to the fetch of this call stored to 0x4014
StoredTo4014 ==
    /\ closed.open
    /\ ~closed.interrupted
    /\ Decoded(closed.fetch).operate \in {"STA", "STX", "STY"}
    /\ closed.fetch.mid.addr_abs = \h4014

\* C18: when an instruction has written to 0x4014, at least 513 CPU cycles
\* beyond the instruction's own elapse before the next opcode is fetched
C18_DmaStall == StoredTo4014 => closed.elapsed >= closed.fetch.cost + 513

\* the store to 0x4014 ran to the next fetch in its own four cycles
C18_DmaCostsNothing == StoredTo4014 /\ closed.elapsed = 4

(***************************************************************************)
(* Indirect jumps (SpecJmp)                                                *)
(***************************************************************************)
\* this call fetched the program's JMP (ptr)
JumpedIndirect ==
    /\ Has(events, "fetch")
    /\ Ev(events, "fetch").opcode = \h6C
    /\ Ev(events, "fetch").before.program_counter = JmpAt

\* the pointer of the program's JMP, and the bytes the program stored: the
\* low byte at the pointer, the high byte where JMP looks for it
JmpPointer == read_prg_rom(cart, JmpAt + 1) + 256 * read_prg_rom(cart, JmpAt + 2)
StoredLow == read_prg_rom(cart, \h8006)
StoredHigh == read_prg_rom(cart, \h800B)

\* the byte a bus read finds at an address of RAM or ROM
Plain(a) == IF a < \h2000 THEN Load(bus.cpu_vram, a % 2048, 0) ELSE read_prg_rom(cart, a)

\* C21 as stated: the target's low byte is the byte at p and its high byte
\* the byte at p & 0xFF00 when p's low byte is 0xFF, at p + 1 otherwise; so
\* with 0x00 stored at 0x20FF and 0x30 at 0x2000, JMP ($20FF) sets PC to
\* 0x3000
C21_IndirectJump ==
    JumpedIndirect
        => /\ JmpPointer \notin \h2000..\h7FFF
                => cpu.program_counter
                     = 256 * Plain(HighByteAt(JmpPointer)) + Plain(JmpPointer)
           /\ (JmpPointer = \h20FF /\ StoredLow = \h00 /\ StoredHigh = \h30)
                => cpu.program_counter = \h3000

\* C21 amended: the same rule for the bytes bus reads return; a pointer in
\* RAM or ROM gives the stored bytes, so JMP ($02FF) with 0x00 at 0x02FF and
\* 0x30 at 0x0200 sets PC to 0x3000; at 0x20FF the high byte is a read of
\* the control register, which returns 0
C21_IndirectJumpOnTheBus ==
    JumpedIndirect
        => /\ JmpPointer \notin \h2000..\h7FFF
                => cpu.program_counter
                     = 256 * Plain(HighByteAt(JmpPointer)) + Plain(JmpPointer)
           /\ JmpPointer \in \h0000..\h1FFF
                => cpu.program_counter = 256 * StoredHigh + StoredLow
           /\ JmpPointer = \h20FF => Hi(cpu.program_counter) = 0

\* C21 witness: JMP ($02FF) with 0x00 at 0x02FF, 0x30 at 0x0200 and 0x55 at
\* 0x0300 has set PC to 0x3000
C21_JumpedThroughPageEnd ==
    /\ JumpedIndirect
    /\ JmpPointer = \h02FF
    /\ Plain(\h02FF) = \h00 /\ Plain(\h0200) = \h30 /\ Plain(\h0300) = \h55
    /\ cpu.program_counter = \h3000

(***************************************************************************)
(* LDA then ADC from reset (SpecAdc)                                       *)
(***************************************************************************)
\* this call fetched the program's ADC, the LDA before it done
Added ==
    /\ Has(events, "fetch")
    /\ Ev(events, "fetch").opcode = \h69
    /\ Ev(events, "fetch").before.program_counter = \h8002

\* the program's two immediate bytes
Addend1 == read_prg_rom(cart, \h8001)
Addend2 == read_prg_rom(cart, \h8003)

\* a status flag of the CPU as 0 or 1: C is bit 0, Z bit 1, V bit 6, N bit 7
Flag(k) == (cpu.status \div (2 ^ k)) % 2

Truth(b) == IF b THEN 1 ELSE 0

\* C22: from reset, LDA #a ; ADC #m leaves A = (a + m) mod 256, C = 1 iff
\* a + m > 255, Z = 1 iff A = 0, N = bit 7 of A, and V = 1 iff a and m have
\* the same bit 7 and A's bit 7 differs from it
C22_LoadThenAdd ==
    Added
        => /\ Ev(events, "fetch").before.accumulator = Addend1
           /\ Ev(events, "fetch").before.status % 2 = 0
           /\ cpu.accumulator = (Addend1 + Addend2) % 256
           /\ Flag(0) = Truth(Addend1 + Addend2 > 255)
           /\ Flag(1) = Truth(cpu.accumulator = 0)
           /\ Flag(7) = cpu.accumulator \div 128
           /\ Flag(6) = Truth(/\ Addend1 \div 128 = Addend2 \div 128
                              /\ cpu.accumulator \div 128 # Addend1 \div 128)

\* C22 witness: 0x7F + 0x01 has given A = 0x80 with V and N set, Z and C
\* clear
C22_SignedOverflow ==
    /\ Added
    /\ Addend1 = \h7F /\ Addend2 = \h01
    /\ cpu.accumulator = \h80
    /\ Flag(6) = 1 /\ Flag(7) = 1 /\ Flag(1) = 0 /\ Flag(0) = 0

(***************************************************************************)
(* The host's calls (SpecHost)                                             *)
(***************************************************************************)
\* the last clock() call wrapped scanline 261: the PPU set frame_complete
FrameWrapped ==
    /\ Has(events, "ppu")
    /\ Ev(events, "ppu").scanline = 261
    /\ Ev(events, "ppu").cycle = 340

\* C23: from every reachable state run_frame ends within 341 * 262 ticks, at
\* the first tick on which the PPU sets frame_complete, returns true and
\* leaves frame_complete cleared
C23_RunFrame ==
    hist.last.op = "frame"
        => /\ hist.last.ticks <= FrameTicks
           /\ hist.last.ticks = FrameTicks - hist.last.pos
           /\ FrameWrapped
           /\ hist.last.ret
           /\ ~ppu.frame_complete

\* run_frame, called with frame_complete left set by step_instruction, made
\* one clock() call in the middle of scanline 0 and returned true
C23_ReturnedOnStaleFlag ==
    /\ hist.last.op = "frame"
    /\ hist.last.stale
    /\ hist.last.ticks = 1
    /\ hist.last.ret
    /\ ~FrameWrapped

\* C24: a step_instruction call made with no cycles remaining fetches
\* exactly one opcode and returns with no cycles remaining
C24_StepInstruction ==
    (hist.last.op = "step" /\ hist.last.cycles = 0)
        => /\ Count(events, "fetch") = 1
           /\ cpu.cycles = 0

\* step_instruction, called with no cycles remaining between two CPU
\* cycles, made one clock() call and fetched nothing
C24_SteppedWithoutFetch ==
    /\ hist.last.op = "step"
    /\ hist.last.cycles = 0
    /\ Count(events, "ppu") = 1
    /\ Count(events, "fetch") = 0

(***************************************************************************)
(* The bus over the whole address space (SpecBus)                          *)
(***************************************************************************)
\* the addresses nothing is mapped at
Unmapped(a) ==
    (a >= \h4000 /\ a <= \h4013) \/ a = \h4015 \/ (a >= \h4018 /\ a <= \h7FFF)

\* the addresses a write does nothing at
Unwritable(a) == Unmapped(a) \/ a = \h4017 \/ (a >= \h8000 /\ a <= \hFFFF)

\* the byte of the PRG image a CPU address of 0x8000..0xFFFF stands for
PrgByte(a) == Load(cart.prg_rom, (a - \h8000) % cart.prg_len, 0)

\* C25: with one or two PRG banks every bus access is defined: the PRG index
\* of every address is inside the image; a read of an unmapped address
\* returns 0; such reads, writes to unmapped addresses, to 0x4017 and to
\* 0x8000..0xFFFF change nothing; a read of PRG ROM returns the image's
\* byte, with one bank the same at 0xC000 + k as at 0x8000 + k
C25_BusTotal ==
    /\ (hist.last.op = "read" /\ Unmapped(hist.last.addr))
         => hist.last.data = 0 /\ M = hist.last.before
    /\ (hist.last.op = "read" /\ hist.last.addr >= \h8000)
         => hist.last.data = PrgByte(hist.last.addr) /\ M = hist.last.before
    /\ (hist.last.op = "write" /\ Unwritable(hist.last.addr))
         => M = hist.last.before
    /\ hist.n = 0
         => /\ \A a \in \h8000..\hFFFF :
                 /\ prg_index(cart, a) \in 0..(cart.prg_len - 1)
                 /\ mem_read(M, a) = [m |-> M, v |-> PrgByte(a)]
                 /\ cart.prg_len = 16384 /\ a >= \hC000
                      => mem_read(M, a).v = mem_read(M, a - \h4000).v
            /\ \A a \in \h4000..\hFFFF :
                 /\ Unmapped(a) => mem_read(M, a) = [m |-> M, v |-> 0]
                 /\ Unwritable(a) => mem_write(M, a, \hFF) = M

\* C25 witness: with one bank and the strobe written high, a read of 0xC000
\* has returned the opcode at 0x8000, and 0xFFFD reads as the reset
\* vector's high byte among the bank's last bytes
C25_UpperBankRead ==
    /\ cart.prg_len = 16384
    /\ hist.last.op = "read" /\ hist.last.addr = \hC000 /\ hist.last.data = \h4C
    /\ bus.controller_strobe
    /\ mem_read(M, \hFFFD).v = \h80

(***************************************************************************)
(* Cartridge construction (SpecLoad)                                       *)
(***************************************************************************)
\* what the file's header says, read from its bytes
HeaderByte(k) == Load(hist.file.bytes, k, 0)
MagicFound == \A k \in 0..3 : HeaderByte(k) = <<\h4E, \h45, \h53, \h1A>>[k + 1]
Declared == FullLength(HeaderByte(6), HeaderByte(4), HeaderByte(5))

Loaded == hist.outcome.kind # "none"

\* C26: Cartridge::new never aborts: an unreadable file, a wrong magic and a
\* stream shorter than the header declares each come back as an error
\* value; on success CHR is 8192 zero bytes of RAM iff the CHR bank count is
\* 0, and the mirroring is FourScreen if flags6 bit 3 is set, else Vertical
\* if bit 0 is set, else Horizontal
C26_CartridgeNew ==
    Loaded
        => /\ hist.outcome.kind # "panic"
           /\ ~hist.file.readable => hist.outcome.kind = "err"
           /\ (hist.file.readable /\ hist.file.len >= 4 /\ ~MagicFound)
                => hist.outcome.kind = "err"
           /\ (hist.file.readable /\ hist.file.len >= 16 /\ MagicFound
                 /\ hist.file.len < Declared)
                => hist.outcome.kind = "err"
           /\ hist.outcome.kind = "ok"
                => /\ cart.chr_is_ram = (HeaderByte(5) = 0)
                   /\ cart.chr_is_ram => (hist.outcome.chr_len = 8192 /\ cart.chr_rom = Empty)
                   /\ cart.mirror = IF (HeaderByte(6) \div 8) % 2 = 1 THEN "FourScreen"
                                    ELSE IF HeaderByte(6) % 2 = 1 THEN "Vertical"
                                    ELSE "Horizontal"

\* a file with the right magic, a byte short of the length its header
\* declares, has made Cartridge::new panic
C26_ShortFilePanicked ==
    /\ Loaded
    /\ hist.file.readable /\ MagicFound
    /\ hist.file.len = Declared - 1
    /\ hist.outcome.kind = "panic" /\ fault = "panic"

(***************************************************************************)
(* The PPU's counters and the vertical blank (SpecScan)                    *)
(***************************************************************************)
\* the last clock() call found the PPU at the last cycle of scanline 261
WrappedFrame == hist.before.scanline = 261 /\ hist.before.cycle = 340

\* C27: after any number of ticks from reset 0 <= cycle <= 340 and
\* 0 <= scanline <= 261; each tick adds one to cycle, cycle wraps from 340
\* to 0 while scanline advances, scanline wraps from 261 to 0, and
\* frame_complete is set exactly on the tick that wraps scanline 261, once
\* every 341 * 262 ticks
C27_Counters ==
    /\ ppu.cycle \in 0..340
    /\ ppu.scanline \in 0..261
    /\ ppu.scanline * 341 + ppu.cycle = hist.since % FrameTicks
    /\ ppu.frame_complete <=> hist.since >= FrameTicks
    /\ hist.op = "reset" => (ppu.cycle = 0 /\ ppu.scanline = 0 /\ ~ppu.frame_complete)
    /\ hist.op = "clock" =>
         /\ IF hist.before.cycle = 340
            THEN /\ ppu.cycle = 0
                 /\ ppu.scanline = IF hist.before.scanline = 261 THEN 0
                                   ELSE hist.before.scanline + 1
            ELSE /\ ppu.cycle = hist.before.cycle + 1
                 /\ ppu.scanline = hist.before.scanline
         /\ WrappedFrame => ppu.frame_complete
         /\ (ppu.frame_complete # hist.before.frame_complete)
              => (WrappedFrame /\ hist.since = FrameTicks)

\* the tick that wraps scanline 261 has set frame_complete, 341 * 262 ticks
\* after the reset that cleared it
C27_FrameSetAgainAfterReset ==
    /\ nresets = 1
    /\ hist.op = "clock" /\ WrappedFrame
    /\ hist.since = FrameTicks
    /\ ~hist.before.frame_complete /\ ppu.frame_complete
    /\ ppu.scanline = 0 /\ ppu.cycle = 0

\* the last clock() call executed an instruction that read the status register
StatusRead ==
    \E i \in DOMAIN events :
        /\ events[i].e = "fetch"
        /\ Decoded(events[i]).operate = "LDA"
        /\ Decoded(events[i]).addrmode = "ABS"
        /\ events[i].mid.addr_abs \in \h2000..\h3FFF
        /\ Canonical(events[i].mid.addr_abs) = \h2002

VBlankNow == Test(ppu.status_register, \h80)
VBlankBefore == Test(hist.before.status, \h80)
AtVBlankStart == hist.before.scanline = 241 /\ hist.before.cycle = 1
AtPreRender == hist.before.scanline = 261 /\ hist.before.cycle = 1

\* the ticks processed at scanline 241, cycle 1 since the last reset
VBlankStarts == (hist.since + FrameTicks - VBlankSetAt - 1) \div FrameTicks

\* C28: status bit 7 is set only by the tick processed at scanline 241,
\* cycle 1, and is cleared by the tick processed at scanline 261, cycle 1 and
\* by a read of 0x2002; the nmi line is raised only on the scanline-241,
\* cycle-1 tick and only if control bit 7 is set at that tick, hence at most
\* once per frame
C28_VerticalBlank ==
    /\ hist.op = "reset" => ~VBlankNow
    /\ hist.op = "clock" =>
         /\ (VBlankNow /\ ~VBlankBefore) => AtVBlankStart
         /\ (AtVBlankStart /\ ~StatusRead) => VBlankNow
         /\ (VBlankBefore /\ ~VBlankNow) => (AtPreRender \/ StatusRead)
         /\ AtPreRender => ~VBlankNow
         /\ StatusRead => ~VBlankNow
         /\ Ev(events, "ppu").nmi
              <=> (AtVBlankStart /\ Test(Ev(events, "ppu").control, \h80))
         /\ Ev(events, "ppu").scanline = hist.before.scanline
         /\ Ev(events, "ppu").cycle = hist.before.cycle
    /\ hist.raises <= VBlankStarts
    /\ ~ppu.nmi

\* after the first vertical blank raised the nmi line, a read of 0x2002
\* has cleared status bit 7 before the pre-render scanline
C28_VBlankClearedByRead ==
    /\ hist.op = "clock"
    /\ hist.raises = 1
    /\ VBlankBefore /\ ~VBlankNow
    /\ StatusRead /\ ~AtPreRender
    /\ hist.before.scanline \in 241..260

(***************************************************************************)
(* The status register (SpecStatus)                                        *)
(***************************************************************************)
ReadOfStatus(o) == o.op = "read" /\ Canonical(o.addr) = \h2002

\* C29: a read of 0x2002 returns (status & 0xE0) | (read buffer & 0x1F) as
\* they were before the read, then clears status bit 7 and resets the write
\* latch; it leaves the address register, scroll values, read buffer, OAM,
\* VRAM and palette unchanged, so a second read immediately after returns
\* bit 7 clear
C29_StatusRead ==
    ReadOfStatus(hist.last) =>
        /\ hist.last.v = BitAnd(hist.last.pre.ppu.status_register, \hE0)
                           + BitAnd(hist.last.pre.ppu.data_buffer, \h1F)
        /\ ~Test(ppu.status_register, \h80)
        /\ ppu.address_latch
        /\ ppu = [hist.last.pre.ppu
                    EXCEPT !.status_register = IF @ >= \h80 THEN @ - \h80 ELSE @,
                           !.address_latch = TRUE]
        /\ ppu.address_register = hist.last.pre.ppu.address_register
        /\ ppu.scroll_x = hist.last.pre.ppu.scroll_x
        /\ ppu.scroll_y = hist.last.pre.ppu.scroll_y
        /\ ppu.data_buffer = hist.last.pre.ppu.data_buffer
        /\ ppu.oam = hist.last.pre.ppu.oam
        /\ ppu.vram = hist.last.pre.ppu.vram
        /\ ppu.palette = hist.last.pre.ppu.palette
        /\ cpu = hist.last.pre.cpu /\ bus = hist.last.pre.bus
        /\ ReadOfStatus(hist.prev) =>
             (~Test(hist.last.v, \h80) /\ hist.last.v = hist.prev.v % 128)

\* in the vertical blank, with 0xB7 in the buffer and the latch on the
\* second write, two reads of 0x2002 in a row have returned 0x97 and 0x17
C29_ReadTwiceInVBlank ==
    /\ ReadOfStatus(hist.prev) /\ ReadOfStatus(hist.last)
    /\ ~hist.prev.pre.ppu.address_latch
    /\ hist.prev.pre.ppu.status_register = \h80
    /\ hist.prev.pre.ppu.data_buffer = \hB7
    /\ hist.prev.v = \h97
    /\ hist.last.v = \h17
    /\ ppu.address_latch

(***************************************************************************)
(* Nametable mirroring (SpecTable)                                         *)
(***************************************************************************)
\* the nametable (0..3) an address of 0x2000-0x3EFF belongs to
TableOf(a) == ((a - \h2000) % \h1000) \div \h0400

\* the nametables the mirroring tag gives the same storage
Shares(t, i, j) ==
    CASE t = "Horizontal" -> i \div 2 = j \div 2
      [] t = "Vertical" -> i % 2 = j % 2
      [] OTHER -> i = j

\* C30: for every PPU address in 0x2000-0x3EFF and every mirroring tag the
\* VRAM index is inside the VRAM buffer (below 0x0800 for Horizontal and
\* Vertical, below 0x1000 for FourScreen); Horizontal gives nametables 0 and
\* 1 the same storage and 2 and 3 the same, Vertical 0 and 2, and 1 and 3,
\* FourScreen keeps all four apart; an access at 0x3000-0x3EFF hits the byte
\* of the address 0x1000 lower
C30_NameTables ==
    /\ \A i \in DOMAIN ppu.vram : i >= 0 /\ i < vram_size(ppu.mirroring)
    /\ vram_size(ppu.mirroring) = IF ppu.mirroring \in {"Horizontal", "Vertical"}
                                  THEN \h0800 ELSE \h1000
    /\ hist.n >= 1 =>
         /\ Cardinality(DOMAIN ppu.vram) = 1
         /\ \A i \in DOMAIN ppu.vram :
              /\ ppu.vram[i] = hist.data
              /\ i % \h0400 = hist.addr % \h0400
         /\ ppu.palette = Empty /\ ppu.chr_rom = Empty
    /\ hist.n >= 2 =>
         /\ hist.at % \h0400 = hist.addr % \h0400
         /\ hist.v = IF Shares(ppu.mirroring, TableOf(hist.addr), TableOf(hist.at))
                     THEN hist.data ELSE 0

\* with Horizontal mirroring, the byte written at the last address of
\* nametable 3's mirror (0x3EFF) has been read back in nametable 2 (0x2AFF)
C30_ReadBackInSharedTable ==
    /\ ppu.mirroring = "Horizontal"
    /\ hist.n = 2
    /\ hist.addr = \h3EFF
    /\ hist.at = \h2AFF
    /\ hist.v = hist.data
    /\ DOMAIN ppu.vram = {\h06FF}

(***************************************************************************)
(* SBC and ADC of the inverted operand (SpecSbc)                           *)
(***************************************************************************)
\* this call fetched the program's ADC, the SBC done before it
AddedInverted ==
    /\ Has(events, "fetch")
    /\ Ev(events, "fetch").opcode = \h69
    /\ Ev(events, "fetch").before.program_counter = \h8008
    /\ hist.done

\* the flags C, Z, V and N of a status byte
CZVN(p) == BitAnd(p, \hC3)

\* C31: for the same accumulator and carry, SBC with operand M leaves the
\* same accumulator and the same C, Z, V, N flags as ADC with operand
\* M ^ 0xFF
C31_SbcIsAdcInverted ==
    AddedInverted
        => /\ read_prg_rom(cart, \h8009) = 255 - read_prg_rom(cart, \h8004)
           /\ Ev(events, "fetch").mid.accumulator = hist.before.accumulator
           /\ Ev(events, "fetch").mid.status % 2 = hist.before.status % 2
           /\ cpu.accumulator = hist.after.accumulator
           /\ CZVN(cpu.status) = CZVN(hist.after.status)

\* 0x80 - 0x01 with the carry set: SBC #$01 and ADC #$FE have both left
\* A = 0x7F with C and V set, Z and N clear
C31_SignedBorrow ==
    /\ AddedInverted
    /\ hist.before.accumulator = \h80
    /\ hist.before.status % 2 = 1
    /\ read_prg_rom(cart, \h8004) = \h01
    /\ hist.after.accumulator = \h7F
    /\ CZVN(hist.after.status) = \h41
    /\ cpu.accumulator = \h7F
    /\ CZVN(cpu.status) = \h41

(***************************************************************************)
(* Shifts and rotates (SpecShift)                                          *)
(***************************************************************************)
\* this call fetched the program's shift or rotate
Shifted ==
    /\ Has(events, "fetch")
    /\ Decoded(Ev(events, "fetch")).operate \in {"ASL", "LSR", "ROL", "ROR"}

ShiftOp == Decoded(Ev(events, "fetch")).operate
ShiftSource == read_prg_rom(cart, \h8002)
ShiftCarryIn == Ev(events, "fetch").before.status % 2

\* the 8-bit result of the shift or rotate of the source byte
ShiftResult ==
    CASE ShiftOp = "ASL" -> (ShiftSource * 2) % 256
      [] ShiftOp = "LSR" -> ShiftSource \div 2
      [] ShiftOp = "ROL" -> ((ShiftSource * 2) % 256) + ShiftCarryIn
      [] OTHER -> (ShiftCarryIn * 128) + (ShiftSource \div 2)

\* the bit shifted out of the source byte
ShiftedOut ==
    IF ShiftOp \in {"ASL", "ROL"} THEN ShiftSource \div 128 ELSE ShiftSource % 2

\* where the result went: the accumulator under IMP, memory at addr_abs
\* otherwise
WrittenBack ==
    IF Decoded(Ev(events, "fetch")).addrmode = "IMP"
    THEN /\ Ev(events, "fetch").before.accumulator = ShiftSource
         /\ cpu.accumulator = ShiftResult
    ELSE /\ cpu.addr_abs = \h0010
         /\ Ev(events, "fetch").before.accumulator = ShiftSource
         /\ cpu.accumulator = ShiftSource
         /\ Load(bus.cpu_vram, cpu.addr_abs, 0) = ShiftResult

\* C32: for ASL, LSR, ROL and ROR, every source byte and carry-in, the carry
\* afterwards is the bit shifted out of the source (bit 7 for ASL and ROL,
\* bit 0 for LSR and ROR), Z and N are taken from the 8-bit result, and the
\* result is written to A under IMP and to memory at addr_abs otherwise
C32_ShiftsAndRotates ==
    Shifted
        => /\ Flag(0) = ShiftedOut
           /\ Flag(1) = Truth(ShiftResult = 0)
           /\ Flag(7) = ShiftResult \div 128
           /\ WrittenBack

\* LSR A of 0x01 has left A = 0 with the carry clear: the bit shifted out
\* was 1
C32_LsrLostCarry ==
    /\ Shifted
    /\ ShiftOp = "LSR"
    /\ Decoded(Ev(events, "fetch")).addrmode = "IMP"
    /\ ShiftSource = \h01
    /\ cpu.accumulator = 0
    /\ Flag(0) = 0

(***************************************************************************)
(* JSR and RTS (SpecJsr)                                                   *)
(***************************************************************************)
\* this call fetched an instruction with this opcode
Fetched(opcode) == Has(events, "fetch") /\ Ev(events, "fetch").opcode = opcode

\* the byte in page 0x01 at the stack pointer sp
StackAt(sp) == Load(bus.cpu_vram, \h0100 + (sp % 256), 0)

\* the word a little-endian pair of PRG bytes holds
PrgWord(a) == read_prg_rom(cart, a) + 256 * read_prg_rom(cart, a + 1)

\* C33: JSR at address a with target t and stack pointer s pushes the high
\* then the low byte of a+2 (wrapping inside page 0x01) and sets PC = t and
\* S = s-2 mod 256; the RTS executed with the stack as JSR left it sets
\* PC = a+3 and S = s
C33_CallAndReturn ==
    /\ Fetched(\h20) =>
         /\ hist.done
         /\ Ev(events, "fetch").before = hist.before
         /\ StackAt(hist.before.stack_pointer)
                = Hi(hist.before.program_counter + 2)
         /\ StackAt(hist.before.stack_pointer + 255)
                = Lo(hist.before.program_counter + 2)
         /\ DOMAIN bus.cpu_vram
                \subseteq {\h0100 + hist.before.stack_pointer,
                           \h0100 + ((hist.before.stack_pointer + 255) % 256)}
         /\ cpu.program_counter = PrgWord(hist.before.program_counter + 1)
         /\ cpu.stack_pointer = (hist.before.stack_pointer + 254) % 256
    /\ Fetched(\h60) =>
         /\ hist.done
         /\ Ev(events, "fetch").before.stack_pointer = hist.after.stack_pointer
         /\ Ev(events, "fetch").before.program_counter = hist.after.program_counter
         /\ cpu.program_counter = hist.before.program_counter + 3
         /\ cpu.stack_pointer = hist.before.stack_pointer

\* a JSR at 0x80FD with S = 0x00 has pushed 0x80 at 0x0100 and 0xFF at
\* 0x01FF, and the RTS has returned to 0x8100 with S = 0x00
C33_ReturnedAcrossWrap ==
    /\ Fetched(\h60)
    /\ hist.before.program_counter = \h80FD
    /\ hist.before.stack_pointer = \h00
    /\ hist.after.stack_pointer = \hFE
    /\ StackAt(\h00) = \h80
    /\ StackAt(\hFF) = \hFF
    /\ cpu.program_counter = \h8100
    /\ cpu.stack_pointer = \h00

(***************************************************************************)
(* BRK and RTI (SpecBrk)                                                   *)
(***************************************************************************)
\* the flags C, Z, I, D, V and N of a status byte
CZIDVN(p) == BitAnd(p, \hCF)

\* the pushes of BRK at address a with stack pointer s, the vector and the
\* stack pointer afterwards
BrkPushedAddress ==
    /\ StackAt(hist.before.stack_pointer) = Hi(hist.before.program_counter + 2)
    /\ StackAt(hist.before.stack_pointer + 255) = Lo(hist.before.program_counter + 2)
    /\ cpu.program_counter = PrgWord(\hFFFE)
    /\ cpu.stack_pointer = (hist.before.stack_pointer + 253) % 256
    /\ Test(cpu.status, StatusFlag.I)

\* C34: BRK at address a with stack pointer s and status p pushes the high
\* then the low byte of a+2, then p with B = 1 and U = 1 and the other flags
\* as they were before BRK; then I is 1, PC is the word at 0xFFFE/0xFFFF and
\* S = s-3 mod 256; the RTI executed with the stack as BRK left it sets
\* PC = a+2 and S = s and restores C, Z, I, D, V, N to their values before
\* the BRK
C34_BreakAndReturn ==
    /\ Fetched(\h00) =>
         /\ hist.done
         /\ Ev(events, "fetch").before = hist.before
         /\ BrkPushedAddress
         /\ StackAt(hist.before.stack_pointer + 254)
                = BitOr(hist.before.status, \h30)
    /\ Fetched(\h40) =>
         /\ hist.done
         /\ Ev(events, "fetch").before.stack_pointer = hist.after.stack_pointer
         /\ cpu.program_counter = hist.before.program_counter + 2
         /\ cpu.stack_pointer = hist.before.stack_pointer
         /\ CZIDVN(cpu.status) = CZIDVN(hist.before.status)

\* a BRK executed with I = 0 has pushed a status byte with I = 1, and the
\* RTI of the handler has returned with I = 1
C34_ReturnedWithInterruptsDisabled ==
    /\ Fetched(\h40)
    /\ hist.done
    /\ ~Test(hist.before.status, StatusFlag.I)
    /\ StackAt(hist.before.stack_pointer + 254)
           = BitOr(hist.before.status, \h34)
    /\ Test(cpu.status, StatusFlag.I)
    /\ cpu.program_counter = hist.before.program_counter + 2

(***************************************************************************)
(* The NMI sequence and RTI (SpecNmi)                                      *)
(***************************************************************************)
\* the pushes of the program counter by the NMI sequence, the vector, the
\* stack pointer and the cycle count afterwards
NmiPushedAddress ==
    /\ StackAt(hist.before.stack_pointer) = Hi(hist.before.program_counter)
    /\ StackAt(hist.before.stack_pointer + 255) = Lo(hist.before.program_counter)
    /\ Test(cpu.status, StatusFlag.I)
    /\ cpu.stack_pointer = (hist.before.stack_pointer + 253) % 256
    /\ cpu.program_counter = PrgWord(\hFFFA)
    /\ cpu.cycles = 8

\* the status p with B = 0 and U = 1
PushedByNmi(p) == BitOr(BitAnd(p, \hEF), \h20)

\* C35: the NMI sequence run with program counter pc, stack pointer s and
\* status p stores pc's high byte at 0x0100+s, its low byte at
\* 0x0100+((s-1) mod 256), and at 0x0100+((s-2) mod 256) the byte p with
\* B = 0, U = 1 and all other flags, I included, as they were; afterwards
\* I = 1, S = s-3 mod 256, PC is the word at 0xFFFA/0xFFFB and the cycle
\* count is 8; the RTI of the handler returns to pc with the I flag of
\* before the interrupt
C35_NmiAndReturn ==
    /\ Has(events, "nmi") =>
         /\ hist.done
         /\ Ev(events, "nmi").before = hist.before
         /\ NmiPushedAddress
         /\ StackAt(hist.before.stack_pointer + 254) = PushedByNmi(hist.before.status)
    /\ (Fetched(\h40) /\ hist.done) =>
         /\ Ev(events, "fetch").before.stack_pointer = hist.after.stack_pointer
         /\ cpu.program_counter = hist.before.program_counter
         /\ cpu.stack_pointer = hist.before.stack_pointer
         /\ Test(cpu.status, StatusFlag.I) = Test(hist.before.status, StatusFlag.I)

\* an NMI taken with I = 0 has pushed a status byte with I = 1, and the RTI
\* of the handler has returned to the interrupted loop with I = 1
C35_ReturnedWithIFlagSet ==
    /\ Fetched(\h40)
    /\ hist.done
    /\ ~Test(hist.before.status, StatusFlag.I)
    /\ StackAt(hist.before.stack_pointer + 254)
           = PushedByNmi(hist.before.status) + StatusFlag.I
    /\ Test(cpu.status, StatusFlag.I)
    /\ cpu.program_counter = hist.before.program_counter

(***************************************************************************)
(* Sprites in the frame buffer (SpecDraw)                                  *)
(***************************************************************************)
\* the last clock() call ended the frame: the PPU was at scanline 261,
\* cycle 340
FrameEnded ==
    /\ Has(events, "ppu")
    /\ Ev(events, "ppu").scanline = 261
    /\ Ev(events, "ppu").cycle = 340

\* the pixels of the window on scanlines 20 and 21
SpritePixels == (18..25) \X (20..21)

PixelAt(buffer, xy, fill) == Load(buffer, xy[2] * 256 + xy[1], fill)

\* the colour index 0..3 the unflipped 8x8 sprite i of pattern table 0 has
\* at the pixel, 0 outside of the sprite
SpriteColour(i, xy) ==
    LET top == Load(ppu.oam, 4 * i, 255) + 1
        left == Load(ppu.oam, 4 * i + 3, 255)
        tile == Load(ppu.oam, 4 * i + 1, 255)
    IN  IF xy[1] \in left..(left + 7) /\ xy[2] \in top..(top + 7)
        THEN 2 * BitAt(Load(ppu.chr_rom, 16 * tile + 8 + (xy[2] - top), 0),
                       7 - (xy[1] - left))
               + BitAt(Load(ppu.chr_rom, 16 * tile + (xy[2] - top), 0), 7 - (xy[1] - left))
        ELSE 0

\* the (R, G, B) of sprite i at the pixel
SpriteRgb(i, xy) ==
    SYSTEM_PALLETE[Load(ppu.palette,
                        16 + 4 * (Load(ppu.oam, 4 * i + 2, 255) % 4) + SpriteColour(i, xy),
                        0) + 1]

\* sprite i has an opaque pixel there and it is drawn: sprites are on, and
\* the sprite is not behind a nonzero background colour index with the
\* background on
SpriteShown(i, xy) ==
    /\ SpriteColour(i, xy) # 0
    /\ Test(ppu.mask_register, 16)
    /\ ~(/\ Test(Load(ppu.oam, 4 * i + 2, 255), 32)
         /\ Test(ppu.mask_register, 8)
         /\ PixelAt(hist.buffers.background_index_buffer, xy, 0) # 0)

SpritesShown(xy) == {i \in 0..63 : SpriteShown(i, xy)}

Lowest(S) == CHOOSE i \in S : \A j \in S : i <= j
Highest(S) == CHOOSE i \in S : \A j \in S : i >= j

\* C38: at the end of the frame the sprites are drawn from sprite 63 down to
\* sprite 0, so a pixel where opaque pixels of drawn sprites overlap holds the
\* pixel of the sprite with the lowest OAM index; a sprite pixel with the
\* behind-background attribute is not drawn where the background is on and
\* the stored background colour index is nonzero (a pixel no sprite is drawn
\* on keeps what the background left)
C38_SpritePriority ==
    FrameEnded =>
        \A xy \in SpritePixels :
            PixelAt(hist.buffers.frame_buffer, xy, Black)
                = IF SpritesShown(xy) = {} THEN PixelAt(hist.under, xy, Black)
                  ELSE SpriteRgb(Lowest(SpritesShown(xy)), xy)

\* sprites 0 and 63 overlap on a pixel, both drawn, and the frame buffer
\* holds the pixel of sprite 63
C38_HigherIndexOnTop ==
    /\ FrameEnded
    /\ \E xy \in SpritePixels :
           /\ SpritesShown(xy) = {0, 63}
           /\ SpriteRgb(0, xy) # SpriteRgb(63, xy)
           /\ PixelAt(hist.buffers.frame_buffer, xy, Black) = SpriteRgb(63, xy)

(***************************************************************************)
(* Reset (SpecDraw)                                                        *)
(***************************************************************************)
\* C36: from any state, reset sets S = 0xFD, P = U|I = 0x24, PC = the word
\* at 0xFFFC/0xFFFD and the pending cycles to 8, so that the first opcode
\* fetch comes only after 8 CPU cycles have been counted down (it is made by
\* the ninth); the reset also clears the PPU's scanline and cycle, its nmi
\* line, frame_complete and the frame buffer
C36_Reset ==
    /\ Has(events, "reset") =>
         /\ cpu.stack_pointer = \hFD
         /\ cpu.status = \h24
         /\ cpu.program_counter = PrgWord(\hFFFC)
         /\ cpu.cycles = 8
         /\ ppu.scanline = 0 /\ ppu.cycle = 0
         /\ ~ppu.nmi
         /\ ~ppu.frame_complete
         /\ hist.buffers.frame_buffer = Empty
    /\ hist.counted \in 1..8 =>
         /\ ~Has(events, "fetch")
         /\ cpu.cycles = 8 - hist.counted
         /\ cpu.program_counter = PrgWord(\hFFFC)
    /\ (hist.counted = 9 /\ Has(events, "cpu")) =>
         /\ Has(events, "fetch")
         /\ Ev(events, "fetch").before.program_counter = PrgWord(\hFFFC)
         /\ Ev(events, "fetch").before.stack_pointer = \hFD

\* a reset found the frame complete, the PPU away from scanline 0, cycle 0
\* and sprites in the frame buffer, and the first opcode has been fetched
\* since
C36_FirstFetchAfterReset ==
    /\ nresets = 1
    /\ hist.found.frame_complete
    /\ hist.found.cycle # 0
    /\ hist.found.frame_buffer # Empty
    /\ \E xy \in SpritePixels :
           /\ PixelAt(hist.found.frame_buffer, xy, Black) \notin {Black, SYSTEM_PALLETE[1]}
           /\ PixelAt(hist.buffers.frame_buffer, xy, Black) = Black
    /\ hist.counted = 9
    /\ Has(events, "fetch")

(***************************************************************************)
(* The unused flag (SpecFlags)                                             *)
(***************************************************************************)
\* C37: after reset, at every opcode fetch bit 5 (U) of the status is 1,
\* whatever ran before (PHP, PLP, RTI, BRK, the NMI entry); PHP stores the
\* status with B and U set, and PLP leaves U = 1 whatever byte it pulls
C37_UnusedFlag ==
    /\ Has(events, "fetch") => Test(Ev(events, "fetch").before.status, StatusFlag.U)
    /\ Fetched(\h08) =>
         StackAt(Ev(events, "fetch").before.stack_pointer)
             = BitOr(Ev(events, "fetch").before.status, StatusFlag.B + StatusFlag.U)
    /\ Fetched(\h28) =>
         Ev(events, "fetch").after.status
             = BitOr(StackAt(Ev(events, "fetch").after.stack_pointer), StatusFlag.U)

\* PLP has pulled a byte with U = 0 and B = 1, and the PHP after it is being
\* executed with U = 1
C37_PushedAfterPullingZero ==
    /\ Fetched(\h08)
    /\ hist.done
    /\ read_prg_rom(cart, \h8006) = \hDF
    /\ hist.after.status = \hFF
    /\ Ev(events, "fetch").before.status = \hFF
    /\ StackAt(Ev(events, "fetch").before.stack_pointer) = \hFF

(***************************************************************************)
(* Sprite-zero-hit and sprite-overflow (SpecDraw)                          *)
(***************************************************************************)
\* C39: in every reachable state bits 0-6 of the PPU's status register are
\* 0; no read of 0x2002 returns bit 6 (sprite-zero-hit) or bit 5
\* (sprite-overflow) set, and a program that waits for sprite-zero-hit never
\* leaves its wait loop (BIT $2002 ; BVC at 0x804B, left for 0x8050)
C39_NoSpriteFlags ==
    /\ BitAnd(ppu.status_register, \h7F) = 0
    /\ Fetched(\h2C) =>
         /\ Ev(events, "fetch").mid.addr_abs = \h2002
         /\ BitAnd(Ev(events, "fetch").after.fetched, \h60) = 0
    /\ cpu.program_counter \in \h8000..\h804F

\* the program reads 0x2002 in its wait loop after an opaque pixel of sprite
\* 0 has met an opaque background pixel, sprites and background being on,
\* and the byte read is 0
C39_WaitingOverSpriteZero ==
    /\ nresets = 0
    /\ Fetched(\h2C)
    /\ Ev(events, "fetch").before.program_counter = \h804B
    /\ Ev(events, "fetch").after.fetched = 0
    /\ Test(ppu.mask_register, 8) /\ Test(ppu.mask_register, 16)
    /\ \E xy \in SpritePixels :
           /\ SpriteColour(0, xy) # 0
           /\ PixelAt(hist.buffers.background_index_buffer, xy, 0) # 0

(***************************************************************************)
(* The cadence across the wrap of system_clock_counter (SpecWrap)          *)
(***************************************************************************)
\* the last clock() call ran a CPU cycle / ticked the PPU only
CpuTick == Has(events, "ppu") /\ Has(events, "cpu")
PpuOnlyTick == Has(events, "ppu") /\ ~Has(events, "cpu")

\* two clock() calls in a row: a CPU cycle is followed by a PPU-only tick,
\* and two PPU-only ticks are followed by a CPU cycle (the next call runs one
\* iff it finds the counter divisible by 3)
TwoPpuOnlyTicksBetween ==
    /\ CpuTick => PpuOnlyTick'
    /\ (PpuOnlyTick /\ PpuOnlyTick') => WideMod3(cpu'.system_clock_counter) = 0

\* C40: the every-third-tick cadence survives the wrap of the 32-bit
\* system_clock_counter: the increment at the maximum value does not fault,
\* and around the wrap there are still exactly two PPU-only ticks between
\* consecutive CPU cycles
C40_CadenceAcrossWrap ==
    /\ [](fault = "none")
    /\ [][nticks' # nticks => TwoPpuOnlyTicksBetween]_vars

\* the release build past the wrap: the call that found the counter at its
\* maximum ran a CPU cycle, and so has the call after it
C40_TwoCpuCyclesInARow ==
    /\ fault = "none"
    /\ nticks = Wide(65536, 1)
    /\ cpu.system_clock_counter = Wide(0, 1)
    /\ CpuTick
    /\ tally.cpu = CeilDiv3(nticks) + 1

\* the debug build at the wrap: the increment has panicked
C40_IncrementFaulted ==
    /\ fault = "overflow"
    /\ cpu.system_clock_counter = Wide(65535, 65535)

====
